---------------------------- MODULE Spec2Model ----------------------------
(***************************************************************************)
(* A model of the ape cache subsystem: the storage backends                *)
(* (src/src/ape/cache/backends.py), the CacheManager                       *)
(* (src/src/ape/cache/manager.py) and the SpecializedCache key layer       *)
(* (src/src/ape/cache/specialized.py).                                     *)
(*                                                                         *)
(* Conventions.                                                            *)
(*  - A Python Optional is a sequence: <<>> is None, <<x>> is the value x. *)
(*  - A Python value is a pair <<type tag, payload>>; PyNone is the value  *)
(*    None.  An exception raised by the codec is the pair                  *)
(*    <<"raise", code>> in the place of its result; a manager method       *)
(*    gives Some(code) in the raised field of its outcome.                 *)
(*  - A string the model takes apart (a cache key, a namespace) is the     *)
(*    sequence of its characters.                                          *)
(*  - time.time() is the variable now: it is read once per operation and   *)
(*    only moves forward (action Tick).                                    *)
(*                                                                         *)
(* Specifications: Spec and SpecCalls (one backend under the primitive     *)
(* operations and get_or_set), SpecOps (one backend under the derived      *)
(* operations), SpecMgr, SpecMemo and SpecErr (the manager), SpecKey (the  *)
(* key layer), SpecCodec (the DiskCache codec), SpecRace (two callers      *)
(* inside CacheManager.get_or_set), SpecDefault (the manager's default     *)
(* backend), SpecSnap (the result of get_metrics), SpecLru (the recency    *)
(* order of one MemoryCache), SpecSlots (what a set puts out of a          *)
(* MemoryCache), SpecDisk (one DiskCache on a database file), SpecConn     *)
(* (the connections of one DiskCache) and SpecAcct (the manager's counters *)
(* against the calls made).                                                *)
(***************************************************************************)
EXTENDS Integers, Sequences, FiniteSets, TLC

(* ------------------------------ bounds -------------------------------- *)

\* Number of distinct cache keys of the backend specification.
NumKeys == 3
\* Largest max_size a MemoryCache of the backend specification is built with.
MaxMem == 2
\* Last clock value.
MaxTime == 2

(* --------------------------- Python values ---------------------------- *)

None == <<>>
Some(x) == <<x>>

PyNone == <<"NoneType", 0>>
PyInt(n) == <<"int", n>>
\* the string "a"
PyStr == <<"str", 0>>
\* the list [1]
PyList == <<"list", 1>>
\* the tuple (1,)
PyTuple == <<"tuple", 1>>
\* the mapping {"a": 1}
PyDictStr == <<"dict_str", 1>>
\* the mapping {1: 1}
PyDictInt == <<"dict_int", 1>>
\* the empty set set(): json.dumps rejects it, pickle accepts it
PySet == <<"set", 0>>
\* a lambda: json.dumps rejects it and pickle.dumps raises PicklingError
PyLambda == <<"function", 0>>
\* a function defined inside a function: json.dumps rejects it and
\* pickle.dumps raises AttributeError (Can't pickle local object)
PyLocalFunction == <<"local_function", 0>>

PyTrue == <<"bool", 1>>
PyFalse == <<"bool", 0>>
PyBool(x) == IF x THEN PyTrue ELSE PyFalse

Raise(code) == <<"raise", code>>

(* ----------------------------- MemoryCache ---------------------------- *)
(* self._cache is an OrderedDict: a sequence of entries, least recently    *)
(* used first, at most one entry per key.                                  *)

MemEntry(k, v, e) == [key |-> k, value |-> v, expires_at |-> e]

\* key in self._cache
MemHas(cache, k) == \E i \in 1..Len(cache) : cache[i].key = k

\* self._cache[key]
MemLookup(cache, k) == cache[CHOOSE i \in 1..Len(cache) : cache[i].key = k]

\* the expiry test with >= in the place of >
IsExpiredLate(expires_at, t) == expires_at # None /\ t >= expires_at[1]
\* expires_at is not None and time.time() > expires_at
IsExpired(expires_at, t) == expires_at # None /\ t > expires_at[1]

\* time.time() + ttl if ttl is not None else None
ExpiresAt(ttl, t) == IF ttl # None THEN Some(t + ttl[1]) ELSE None

\* MemoryCache.delete: self._cache.pop(key, None)
MemDelete(cache, k) == SelectSeq(cache, LAMBDA e : e.key # k)

\* OrderedDict.move_to_end(key)
MoveToEnd(cache, k) == Append(MemDelete(cache, k), MemLookup(cache, k))

\* self._cache.setdefault(key, entry): an existing key keeps its entry
MemAssignIfAbsent(cache, k, entry) ==
    IF MemHas(cache, k) THEN cache ELSE Append(cache, entry)
\* self._cache[key] = entry: an existing key keeps its position
MemAssign(cache, k, entry) ==
    IF MemHas(cache, k)
    THEN [i \in 1..Len(cache) |-> IF cache[i].key = k THEN entry ELSE cache[i]]
    ELSE Append(cache, entry)

\* the eviction loop with popitem(last=True): the most recently used goes
RECURSIVE EvictNewest(_, _)
EvictNewest(cache, max_size) ==
    IF Len(cache) > max_size /\ cache # <<>>
    THEN EvictNewest(SubSeq(cache, 1, Len(cache) - 1), max_size)
    ELSE cache
\* while len(self._cache) > self.max_size: self._cache.popitem(last=False);
\* with a negative max_size it empties the cache and popitem then raises
\* KeyError (MemSetRaises)
RECURSIVE EvictOldest(_, _)
EvictOldest(cache, max_size) ==
    IF Len(cache) > max_size /\ cache # <<>>
    THEN EvictOldest(Tail(cache), max_size)
    ELSE cache

\* MemoryCache.set raises KeyError: popitem on the emptied cache
MemSetRaises(max_size) == max_size < 0

\* MemoryCache.get without the expiry test
MemGetStale(cache, k, t) ==
    IF ~MemHas(cache, k) THEN [cache |-> cache, ret |-> PyNone]
    ELSE [cache |-> MoveToEnd(cache, k), ret |-> MemLookup(cache, k).value]
\* MemoryCache.get without move_to_end
MemGetInPlace(cache, k, t) ==
    IF ~MemHas(cache, k) THEN [cache |-> cache, ret |-> PyNone]
    ELSE IF IsExpired(MemLookup(cache, k).expires_at, t)
         THEN [cache |-> MemDelete(cache, k), ret |-> PyNone]
         ELSE [cache |-> cache, ret |-> MemLookup(cache, k).value]
\* MemoryCache.get: the cache afterwards and the value returned
MemGet(cache, k, t) ==
    IF ~MemHas(cache, k) THEN [cache |-> cache, ret |-> PyNone]
    ELSE IF IsExpired(MemLookup(cache, k).expires_at, t)
         THEN [cache |-> MemDelete(cache, k), ret |-> PyNone]
         ELSE [cache |-> MoveToEnd(cache, k), ret |-> MemLookup(cache, k).value]

\* MemoryCache.set that drops the expired entries before it evicts
MemSetPurging(cache, max_size, k, v, ttl, t) ==
    EvictOldest(MoveToEnd(MemAssign(SelectSeq(cache, LAMBDA e : ~IsExpired(e.expires_at, t)),
                                    k, MemEntry(k, v, ExpiresAt(ttl, t))), k),
                max_size)
\* MemoryCache.set that makes room before it assigns: a full cache loses
\* its least recently used entry also when the key is already held
MemSetRoomFirst(cache, max_size, k, v, ttl, t) ==
    LET room == IF Len(cache) >= max_size /\ cache # <<>> THEN Tail(cache) ELSE cache
    IN MoveToEnd(MemAssign(room, k, MemEntry(k, v, ExpiresAt(ttl, t))), k)
\* MemoryCache.set
MemSet(cache, max_size, k, v, ttl, t) ==
    EvictOldest(MoveToEnd(MemAssign(cache, k, MemEntry(k, v, ExpiresAt(ttl, t))), k),
                max_size)

\* MemoryCache.clear
MemClear(cache) == <<>>

\* MemoryCache.exists with the move_to_end of get
MemExistsPromoting(cache, k, t) ==
    IF ~MemHas(cache, k) THEN [cache |-> cache, ret |-> FALSE]
    ELSE IF IsExpired(MemLookup(cache, k).expires_at, t)
         THEN [cache |-> MemDelete(cache, k), ret |-> FALSE]
         ELSE [cache |-> MoveToEnd(cache, k), ret |-> TRUE]
\* MemoryCache.exists: the cache afterwards and the boolean returned
MemExists(cache, k, t) ==
    IF ~MemHas(cache, k) THEN [cache |-> cache, ret |-> FALSE]
    ELSE IF IsExpired(MemLookup(cache, k).expires_at, t)
         THEN [cache |-> MemDelete(cache, k), ret |-> FALSE]
         ELSE [cache |-> cache, ret |-> TRUE]

(* ------------------------- DiskCache: the codec ----------------------- *)
(* Encoded bytes are modelled by what they decode to: <<"json", doc>> is   *)
(* the UTF-8 text of the JSON document doc, <<"pickle", v>> the pickle of  *)
(* the value v.  JSON has one array type and only string keys, so lists    *)
(* and tuples share a document, and so do the two mappings.                *)

\* is_json_serializable: json.dumps(value) does not raise
IsJsonSerializable(v) ==
    v[1] \in {"NoneType", "bool", "int", "str", "list", "tuple", "dict_str", "dict_int"}

\* the exception pickle.dumps(value) raises, if any
PickleRaises(v) ==
    CASE v[1] = "function" -> Some("PicklingError")
      [] v[1] = "local_function" -> Some("AttributeError")
      [] OTHER -> None

\* pickle.dumps(value) does not raise
IsPicklable(v) == PickleRaises(v) = None

\* the document json.dumps writes
JsonDoc(v) ==
    CASE v[1] = "NoneType" -> <<"null", 0>>
      [] v[1] = "bool" -> <<"boolean", v[2]>>
      [] v[1] = "int" -> <<"number", v[2]>>
      [] v[1] = "str" -> <<"string", v[2]>>
      [] v[1] \in {"list", "tuple"} -> <<"array", v[2]>>
      [] v[1] \in {"dict_str", "dict_int"} -> <<"object", v[2]>>

\* the value json.loads builds from a document
JsonLoads(doc) ==
    CASE doc[1] = "null" -> PyNone
      [] doc[1] = "boolean" -> <<"bool", doc[2]>>
      [] doc[1] = "number" -> PyInt(doc[2])
      [] doc[1] = "string" -> <<"str", doc[2]>>
      [] doc[1] = "array" -> <<"list", doc[2]>>
      [] doc[1] = "object" -> <<"dict_str", doc[2]>>

\* number of decimal digits of a natural number
RECURSIVE Digits(_)
Digits(n) == IF n < 10 THEN 1 ELSE 1 + Digits(n \div 10)

\* len(data): null, true, false, 7, "a", [1], {"a": 1} as JSON text; set()
\* as a pickle
DataLen(data) ==
    IF data[1] = "json"
    THEN CASE data[2][1] = "null" -> 4
           [] data[2][1] = "boolean" -> IF data[2][2] = 1 THEN 4 ELSE 5
           [] data[2][1] = "number" ->
                IF data[2][2] < 0 THEN 1 + Digits(0 - data[2][2]) ELSE Digits(data[2][2])
           [] data[2][1] = "string" -> 3
           [] data[2][1] = "array" -> 3
           [] data[2][1] = "object" -> 8
    ELSE 5

\* the exception DiskCache._serialize raises, if any: a PickleError or a
\* TypeError of pickle.dumps becomes a CacheError, any other passes through
SerializeRaises(v) ==
    IF IsJsonSerializable(v) \/ IsPicklable(v) THEN None
    ELSE IF PickleRaises(v)[1] \in {"PicklingError", "TypeError"} THEN Some("CacheError")
    ELSE PickleRaises(v)

\* DiskCache._serialize raises
SerializeFails(v) == SerializeRaises(v) # None

\* DiskCache._serialize: the data of the pair (data, len(data))
Serialize(v) ==
    IF IsJsonSerializable(v) THEN <<"json", JsonDoc(v)>> ELSE <<"pickle", v>>

\* bytes that are neither JSON text nor a pickle: b"hello", and
\* b"\x80\x04NNN", a pickle that ends before its STOP opcode
Garbage == <<"bytes", 0>>
CutPickle == <<"bytes", 1>>

\* the exception pickle.loads raises on such bytes: UnpicklingError, a
\* PickleError, on the first and EOFError (Ran out of input) on the second
PickleLoadsRaises(data) == IF data = CutPickle THEN "EOFError" ELSE "UnpicklingError"

\* DiskCache._deserialize: JSON first, then pickle; a PickleError of
\* pickle.loads becomes a CacheError, any other exception passes through
Deserialize(data) ==
    CASE data[1] = "json" -> JsonLoads(data[2])
      [] data[1] = "pickle" -> data[2]
      [] OTHER -> IF PickleLoadsRaises(data) = "UnpicklingError"
                  THEN Raise("CacheError")
                  ELSE Raise(PickleLoadsRaises(data))

(* ------------------------- DiskCache: the table ----------------------- *)
(* The table cache(key, value, expires_at, created_at, size) of the        *)
(* database file is a sequence of rows in rowid order.  A connection works *)
(* on its own view of the file; what it wrote reaches the file only when   *)
(* it commits.                                                             *)

Row(k, data, e, c) ==
    [key |-> k, value |-> data, expires_at |-> e, created_at |-> c,
     size |-> DataLen(data)]

\* sqlite3.connect(path): the view the new connection starts from
Connect(file) == file

\* conn.close() of _get_connection: no commit() precedes it, so the
\* transaction the connection's INSERT or DELETE opened is rolled back
Close(file, view) == file

\* SELECT ... FROM cache WHERE key = ?; fetchone()
SqlSelect(view, k) ==
    IF \E i \in 1..Len(view) : view[i].key = k
    THEN Some(view[CHOOSE i \in 1..Len(view) : view[i].key = k])
    ELSE None

\* DELETE FROM cache WHERE key = ?
SqlDelete(view, k) == SelectSeq(view, LAMBDA r : r.key # k)

\* INSERT OR REPLACE INTO cache: the row that held the key is deleted and
\* the new row gets the next rowid
SqlInsertOrReplace(view, row) == Append(SqlDelete(view, row.key), row)

\* SELECT SUM(size) FROM cache; row[0] or 0
RECURSIVE SqlSumSize(_)
SqlSumSize(view) ==
    IF view = <<>> THEN 0 ELSE Head(view).size + SqlSumSize(Tail(view))

\* DELETE FROM cache WHERE expires_at IS NOT NULL AND expires_at < ?
SqlDeleteExpired(view, t) ==
    SelectSeq(view, LAMBDA r : ~(r.expires_at # None /\ r.expires_at[1] < t))

\* ORDER BY created_at ASC: rows of equal created_at come in rowid order
RECURSIVE InsertByCreatedAt(_, _)
InsertByCreatedAt(sorted, r) ==
    IF sorted = <<>> THEN <<r>>
    ELSE IF r.created_at < Head(sorted).created_at
         THEN <<r>> \o sorted
         ELSE <<Head(sorted)>> \o InsertByCreatedAt(Tail(sorted), r)
RECURSIVE OrderByCreatedAt(_)
OrderByCreatedAt(view) ==
    IF view = <<>> THEN <<>>
    ELSE InsertByCreatedAt(OrderByCreatedAt(SubSeq(view, 1, Len(view) - 1)),
                           view[Len(view)])

\* the loop without its break: every row goes
ToDeleteAll(ordered, remaining, max_size) == {ordered[i].key : i \in 1..Len(ordered)}
\* the loop of _enforce_size_limit: the keys of to_delete
RECURSIVE ToDelete(_, _, _)
ToDelete(ordered, remaining, max_size) ==
    IF ordered = <<>> THEN {}
    ELSE IF remaining - Head(ordered).size <= max_size
         THEN {Head(ordered).key}
         ELSE {Head(ordered).key}
              \cup ToDelete(Tail(ordered), remaining - Head(ordered).size, max_size)

\* DiskCache._enforce_size_limit(conn)
EnforceSizeLimit(view, max_size, t) ==
    IF SqlSumSize(view) <= max_size THEN view
    ELSE LET kept == SqlDeleteExpired(view, t)
         IN IF SqlSumSize(kept) <= max_size THEN kept
            ELSE LET gone == ToDelete(OrderByCreatedAt(kept), SqlSumSize(kept), max_size)
                 IN SelectSeq(kept, LAMBDA r : r.key \notin gone)

\* DiskCache.delete
DiskDelete(file, k) == Close(file, SqlDelete(Connect(file), k))

\* DiskCache.clear: DELETE FROM cache
DiskClear(file) == Close(file, <<>>)

\* DiskCache.get: the file afterwards and the value returned
DiskGet(file, k, t) ==
    LET row == SqlSelect(Connect(file), k)
    IN IF row = None THEN [rows |-> Close(file, Connect(file)), ret |-> PyNone]
       ELSE IF IsExpired(row[1].expires_at, t)
            THEN [rows |-> DiskDelete(file, k), ret |-> PyNone]
            ELSE [rows |-> Close(file, Connect(file)), ret |-> Deserialize(row[1].value)]

\* DiskCache.set
DiskSet(file, max_size, k, v, ttl, t) ==
    IF SerializeFails(v) THEN file
    ELSE Close(file,
               EnforceSizeLimit(
                   SqlInsertOrReplace(Connect(file),
                                      Row(k, Serialize(v), ExpiresAt(ttl, t), t)),
                   max_size, t))

\* DiskCache.exists: the file afterwards and the boolean returned
DiskExists(file, k, t) ==
    LET row == SqlSelect(Connect(file), k)
    IN IF row = None THEN [rows |-> Close(file, Connect(file)), ret |-> FALSE]
       ELSE IF IsExpired(row[1].expires_at, t)
            THEN [rows |-> DiskDelete(file, k), ret |-> FALSE]
            ELSE [rows |-> Close(file, Connect(file)), ret |-> TRUE]

(* ------------------------- a backend instance ------------------------- *)
(* kind is the class (its name property), cache the MemoryCache's          *)
(* OrderedDict, rows the table of the DiskCache's database file.           *)

\* MemoryCache.__init__
NewMemory(max_size) ==
    [kind |-> "memory", max_size |-> max_size, cache |-> <<>>, rows |-> <<>>]

\* DiskCache.__init__ on a database file: _initialize_db creates the table
\* only if it does not exist
NewDisk(max_size, file) ==
    [kind |-> "disk", max_size |-> max_size, cache |-> <<>>, rows |-> file]

\* NullCache()
NewNull == [kind |-> "null", max_size |-> 0, cache |-> <<>>, rows |-> <<>>]

\* backend.get(key)
BackendGet(b, k, t) ==
    CASE b.kind = "memory" ->
           LET r == MemGet(b.cache, k, t)
           IN [b |-> [b EXCEPT !.cache = r.cache], ret |-> r.ret]
      [] b.kind = "disk" ->
           LET r == DiskGet(b.rows, k, t)
           IN [b |-> [b EXCEPT !.rows = r.rows], ret |-> r.ret]
      [] b.kind = "null" -> [b |-> b, ret |-> PyNone]

\* backend.set(key, value, ttl) with a NullCache that keeps one entry
BackendSetKept(b, k, v, ttl, t) ==
    CASE b.kind = "memory" ->
           [b EXCEPT !.cache = MemSet(b.cache, b.max_size, k, v, ttl, t)]
      [] b.kind = "disk" ->
           [b EXCEPT !.rows = DiskSet(b.rows, b.max_size, k, v, ttl, t)]
      [] b.kind = "null" -> [b EXCEPT !.cache = MemSet(b.cache, 1, k, v, ttl, t)]
\* backend.set(key, value, ttl)
BackendSet(b, k, v, ttl, t) ==
    CASE b.kind = "memory" ->
           [b EXCEPT !.cache = MemSet(b.cache, b.max_size, k, v, ttl, t)]
      [] b.kind = "disk" ->
           [b EXCEPT !.rows = DiskSet(b.rows, b.max_size, k, v, ttl, t)]
      [] b.kind = "null" -> b

\* backend.delete(key)
BackendDelete(b, k) ==
    CASE b.kind = "memory" -> [b EXCEPT !.cache = MemDelete(b.cache, k)]
      [] b.kind = "disk" -> [b EXCEPT !.rows = DiskDelete(b.rows, k)]
      [] b.kind = "null" -> b

\* backend.clear()
BackendClear(b) ==
    CASE b.kind = "memory" -> [b EXCEPT !.cache = MemClear(b.cache)]
      [] b.kind = "disk" -> [b EXCEPT !.rows = DiskClear(b.rows)]
      [] b.kind = "null" -> b

\* backend.exists(key)
BackendExists(b, k, t) ==
    CASE b.kind = "memory" ->
           LET r == MemExists(b.cache, k, t)
           IN [b |-> [b EXCEPT !.cache = r.cache], ret |-> r.ret]
      [] b.kind = "disk" ->
           LET r == DiskExists(b.rows, k, t)
           IN [b |-> [b EXCEPT !.rows = r.rows], ret |-> r.ret]
      [] b.kind = "null" -> [b |-> b, ret |-> FALSE]

\* BaseCacheBackend.get_or_set without the self.set of a computed value
BaseGetOrSetNoStore(b, k, f, ttl, t) ==
    LET g == BackendGet(b, k, t)
    IN IF g.ret = PyNone
       THEN [b |-> g.b, ret |-> f, calls |-> 1]
       ELSE [b |-> g.b, ret |-> g.ret, calls |-> 0]
\* BaseCacheBackend.get_or_set: default_factory is modelled by the value f it
\* returns; calls counts its invocations
BaseGetOrSet(b, k, f, ttl, t) ==
    LET g == BackendGet(b, k, t)
    IN IF g.ret = PyNone
       THEN [b |-> BackendSet(g.b, k, f, ttl, t), ret |-> f, calls |-> 1]
       ELSE [b |-> g.b, ret |-> g.ret, calls |-> 0]

(* ------------------------------ dicts --------------------------------- *)
(* A dict is a function on the set of its keys; {} is the empty function.   *)

EmptyDict == <<>>

DictHas(d, k) == k \in DOMAIN d

\* d.get(k, default)
DictGet(d, k, default) == IF DictHas(d, k) THEN d[k] ELSE default

\* d[k] = v
DictPut(d, k, v) == [x \in DOMAIN d \cup {k} |-> IF x = k THEN v ELSE d[x]]

(* --------------- BaseCacheBackend: the derived operations ------------- *)
(* keys is the list handed to get_many or delete_many, mapping the items    *)
(* of the dict handed to set_many in its iteration order.                   *)

\* the exception backend.set(key, value) raises, if any: popitem on an empty
\* OrderedDict, or what DiskCache._serialize lets through
SetRaises(b, v) ==
    CASE b.kind = "memory" -> IF MemSetRaises(b.max_size) THEN Some("KeyError") ELSE None
      [] b.kind = "disk" ->
           IF SerializeRaises(v) \in {None, Some("CacheError")} THEN None
           ELSE SerializeRaises(v)
      [] b.kind = "null" -> None

RECURSIVE GetManyIntoAll(_, _, _, _)
\* the dict comprehension of get_many without its "is not None" filter
GetManyIntoAll(b, keys, t, result) ==
    IF keys = <<>> THEN [b |-> b, ret |-> result]
    ELSE LET g == BackendGet(b, Head(keys), t)
         IN GetManyIntoAll(g.b, Tail(keys), t, DictPut(result, Head(keys), g.ret))
RECURSIVE GetManyInto(_, _, _, _)
\* the dict comprehension of get_many: one self.get per key, in order
GetManyInto(b, keys, t, result) ==
    IF keys = <<>> THEN [b |-> b, ret |-> result]
    ELSE LET g == BackendGet(b, Head(keys), t)
         IN GetManyInto(g.b, Tail(keys), t,
                        IF g.ret # PyNone
                        THEN DictPut(result, Head(keys), g.ret)
                        ELSE result)

\* BaseCacheBackend.get_many
BaseGetMany(b, keys, t) == GetManyInto(b, keys, t, EmptyDict)

RECURSIVE BaseSetMany(_, _, _, _)
\* BaseCacheBackend.set_many: a set that raises ends the loop
BaseSetMany(b, mapping, ttl, t) ==
    IF mapping = <<>> THEN [b |-> b, raised |-> None]
    ELSE LET k == Head(mapping)[1]
             v == Head(mapping)[2]
         IN IF SetRaises(b, v) # None
            THEN [b |-> b, raised |-> SetRaises(b, v)]
            ELSE BaseSetMany(BackendSet(b, k, v, ttl, t), Tail(mapping), ttl, t)

RECURSIVE BaseDeleteMany(_, _)
\* BaseCacheBackend.delete_many
BaseDeleteMany(b, keys) ==
    IF keys = <<>> THEN b
    ELSE BaseDeleteMany(BackendDelete(b, Head(keys)), Tail(keys))

\* isinstance(value, int): bool is a subclass of int
IsInstanceInt(v) == v[1] \in {"int", "bool"}

\* BaseCacheBackend.incr that takes a value of any type for 0
BaseIncrAnyValue(b, k, delta, t) ==
    LET g == BackendGet(b, k, t)
        value == IF IsInstanceInt(g.ret) THEN g.ret[2] ELSE 0
        new_value == value + delta
    IN IF SetRaises(g.b, PyInt(new_value)) # None
       THEN [b |-> g.b, ret |-> PyNone, raised |-> SetRaises(g.b, PyInt(new_value))]
       ELSE [b |-> BackendSet(g.b, k, PyInt(new_value), None, t),
             ret |-> PyInt(new_value), raised |-> None]
\* BaseCacheBackend.incr: the new value is set without a ttl
BaseIncr(b, k, delta, t) ==
    LET g == BackendGet(b, k, t)
        value == IF g.ret = PyNone THEN 0 ELSE g.ret[2]
        new_value == value + delta
    IN IF g.ret # PyNone /\ ~IsInstanceInt(g.ret)
       THEN [b |-> g.b, ret |-> PyNone, raised |-> Some("ValueError")]
       ELSE IF SetRaises(g.b, PyInt(new_value)) # None
       THEN [b |-> g.b, ret |-> PyNone, raised |-> SetRaises(g.b, PyInt(new_value))]
       ELSE [b |-> BackendSet(g.b, k, PyInt(new_value), None, t),
             ret |-> PyInt(new_value), raised |-> None]

\* BaseCacheBackend.decr
BaseDecr(b, k, delta, t) == BaseIncr(b, k, -delta, t)

(* ---------------------------- CacheManager ---------------------------- *)
(* The constructor arguments of a get_backend call are None (no keyword)    *)
(* or Some(n) (max_size=n). An instance is identified by its place in heap, *)
(* the sequence of the instances made so far.                               *)

\* max_size: int = 1000
DefaultMaxSize == 1000

\* hash(n) of a small int: -1 is not a hash value
PyHash(n) == IF n = -1 THEN -2 ELSE n

\* str(n) of a small int
PyStrOfInt(n) ==
    LET digit(d) == <<"0", "1", "2", "3", "4", "5", "6", "7", "8", "9">>[d + 1]
    IN IF n < 0 THEN "-" \o digit(-n) ELSE digit(n)

\* hash(frozenset(kwargs.items())), as the text the f-string makes of it: the
\* hash of the empty frozenset, and for {("max_size", n)} a value that
\* depends on n through hash(n) only
HashOfItems(kwargs) ==
    IF kwargs = None THEN "133146708735736" ELSE "max_size#" \o PyStrOfInt(PyHash(kwargs[1]))

\* cache_key = f"{backend_type}:{hash(frozenset(kwargs.items()))}"
CacheKey(backend_type, kwargs) == backend_type \o ":" \o HashOfItems(kwargs)

Made(b) == [raised |-> None, inst |-> b]

Failed(code) == [raised |-> Some(code), inst |-> NewNull]

\* get_cache_backend(backend_type, **kwargs); DiskCache needs a namespace
\* argument, none of these calls passes one
GetCacheBackendLenient(backend_type, kwargs) ==
    CASE backend_type = "memory" ->
           Made(NewMemory(IF kwargs = None THEN DefaultMaxSize ELSE kwargs[1]))
      [] backend_type = "disk" -> Failed("TypeError")
      [] OTHER -> Made(NewNull)
GetCacheBackend(backend_type, kwargs) ==
    CASE backend_type = "memory" ->
           Made(NewMemory(IF kwargs = None THEN DefaultMaxSize ELSE kwargs[1]))
      [] backend_type = "disk" -> Failed("TypeError")
      [] backend_type = "null" -> Made(NewNull)
      [] OTHER -> Failed("ValueError")

\* CacheManager.__init__
NewManager(t) ==
    [backends |-> EmptyDict,
     metrics |-> [hits |-> EmptyDict, misses |-> EmptyDict,
                  sets |-> EmptyDict, deletes |-> EmptyDict],
     start_time |-> t,
     default |-> None]

\* what a manager method leaves: the manager, the instances, the value
\* returned and the exception raised
Outcome(m, h, ret, raised) == [mgr |-> m, heap |-> h, ret |-> ret, raised |-> raised]

\* CacheManager.get_backend: ret is the instance
GetBackend(m, h, backend_type, kwargs) ==
    LET cache_key == CacheKey(backend_type, kwargs)
        made == GetCacheBackend(backend_type, kwargs)
    IN IF DictHas(m.backends, cache_key)
       THEN Outcome(m, h, m.backends[cache_key], None)
       ELSE IF made.raised # None
            THEN Outcome(m, h, 0, made.raised)
            ELSE Outcome([m EXCEPT !.backends = DictPut(@, cache_key, Len(h) + 1)],
                         Append(h, made.inst), Len(h) + 1, None)

\* a default_backend that builds its own MemoryCache
DefaultBackendOwn(m, h) ==
    IF m.default # None THEN Outcome(m, h, m.default[1], None)
    ELSE Outcome([m EXCEPT !.default = Some(Len(h) + 1)],
                 Append(h, NewMemory(DefaultMaxSize)), Len(h) + 1, None)
\* CacheManager.default_backend, a cached property
DefaultBackend(m, h) ==
    IF m.default # None THEN Outcome(m, h, m.default[1], None)
    ELSE LET r == GetBackend(m, h, "memory", None)
         IN Outcome([r.mgr EXCEPT !.default = Some(r.ret)], r.heap, r.ret, None)

\* the backend argument of a manager method: None, a type string, an
\* instance, or something else
NoBackend == <<"NoneType", "">>
TypeName(s) == <<"str", s>>
Instance(i) == <<"CacheBackend", i>>
NotABackend == <<"int", "">>

\* CacheManager._get_backend_instance
GetBackendInstance(m, h, bk) ==
    CASE bk[1] = "NoneType" -> DefaultBackend(m, h)
      [] bk[1] = "str" -> GetBackend(m, h, bk[2], None)
      [] bk[1] = "CacheBackend" -> Outcome(m, h, bk[2], None)
      [] OTHER -> Outcome(m, h, 0, Some("TypeError"))

\* self._metrics[metric_type][namespace] += 1 that stores the value read
CounterStoreSame(m, metric_type, namespace, read) ==
    [m EXCEPT !.metrics[metric_type] = DictPut(@, namespace, read)]
\* the store of self._metrics[metric_type][namespace] += 1, read being the
\* value the statement loaded (0 when the namespace was not in the dict)
CounterStore(m, metric_type, namespace, read) ==
    [m EXCEPT !.metrics[metric_type] = DictPut(@, namespace, read + 1)]

\* a name that tells the MemoryCache instances of another size apart
GetBackendNameSized(b) ==
    IF b.kind = "memory" /\ b.max_size # DefaultMaxSize THEN "memory/sized" ELSE b.kind
\* CacheManager._get_backend_name: backend.name
GetBackendName(b) == b.kind

\* CacheManager._increment_metric on a counter of another namespace
IncrementOtherMetric(m, metric_type, namespace) ==
    LET other == IF namespace = "memory" THEN "null" ELSE "memory"
    IN [m EXCEPT !.metrics[metric_type] = DictPut(@, other, DictGet(@, other, 0) + 1)]
\* CacheManager._increment_metric
IncrementMetric(m, metric_type, namespace) ==
    [m EXCEPT !.metrics[metric_type] = DictPut(@, namespace, DictGet(@, namespace, 0) + 1)]

\* CacheManager.get: a cache.get that raises ends the method
ManagerGetOf(m, h, key, bk, t) ==
    LET r == GetBackendInstance(m, h, bk)
        cache == r.heap[r.ret]
        got == BackendGet(cache, key, t)
    IN IF r.raised # None THEN r
       ELSE IF got.ret[1] = "raise"
       THEN Outcome(r.mgr, [r.heap EXCEPT ![r.ret] = got.b], PyNone, Some(got.ret[2]))
       ELSE Outcome(IncrementMetric(r.mgr, IF got.ret = PyNone THEN "misses" ELSE "hits",
                                    GetBackendName(cache)),
                    [r.heap EXCEPT ![r.ret] = got.b], got.ret, None)

\* CacheManager.set that counts the set before it calls the backend
ManagerSetCounted(m, h, key, value, ttl, bk, t) ==
    LET r == GetBackendInstance(m, h, bk)
        cache == r.heap[r.ret]
        stored == [r.heap EXCEPT ![r.ret] = BackendSet(cache, key, value, ttl, t)]
    IN IF r.raised # None THEN r
       ELSE Outcome(IncrementMetric(r.mgr, "sets", GetBackendName(cache)), stored, PyNone,
                    SetRaises(cache, value))
\* CacheManager.set: a cache.set that raises ends the method
ManagerSetOf(m, h, key, value, ttl, bk, t) ==
    LET r == GetBackendInstance(m, h, bk)
        cache == r.heap[r.ret]
        stored == [r.heap EXCEPT ![r.ret] = BackendSet(cache, key, value, ttl, t)]
    IN IF r.raised # None THEN r
       ELSE IF SetRaises(cache, value) # None
       THEN Outcome(r.mgr, stored, PyNone, SetRaises(cache, value))
       ELSE Outcome(IncrementMetric(r.mgr, "sets", GetBackendName(cache)), stored, PyNone, None)

\* CacheManager.delete
ManagerDeleteOf(m, h, key, bk) ==
    LET r == GetBackendInstance(m, h, bk)
        cache == r.heap[r.ret]
    IN IF r.raised # None THEN r
       ELSE Outcome(IncrementMetric(r.mgr, "deletes", GetBackendName(cache)),
                    [r.heap EXCEPT ![r.ret] = BackendDelete(cache, key)], PyNone, None)

\* CacheManager.clear
ManagerClearOf(m, h, bk) ==
    LET r == GetBackendInstance(m, h, bk)
    IN IF r.raised # None THEN r
       ELSE Outcome(r.mgr, [r.heap EXCEPT ![r.ret] = BackendClear(@)], PyNone, None)

\* CacheManager.exists
ManagerExistsOf(m, h, key, bk, t) ==
    LET r == GetBackendInstance(m, h, bk)
        found == BackendExists(r.heap[r.ret], key, t)
    IN IF r.raised # None THEN r
       ELSE Outcome(r.mgr, [r.heap EXCEPT ![r.ret] = found.b], PyBool(found.ret), None)

\* CacheManager.get_or_set that counts no set for the value it stores
ManagerGetOrSetSetless(m, h, key, f, ttl, bk, t) ==
    LET r == GetBackendInstance(m, h, bk)
        cache == r.heap[r.ret]
        name == GetBackendName(cache)
        got == BackendGet(cache, key, t)
        missed == IncrementMetric(r.mgr, "misses", name)
        stored == [r.heap EXCEPT ![r.ret] = BackendSet(got.b, key, f, ttl, t)]
    IN IF r.raised # None THEN r
       ELSE IF got.ret[1] = "raise"
       THEN Outcome(r.mgr, [r.heap EXCEPT ![r.ret] = got.b], PyNone, Some(got.ret[2]))
       ELSE IF got.ret # PyNone
            THEN Outcome(IncrementMetric(r.mgr, "hits", name),
                         [r.heap EXCEPT ![r.ret] = got.b], got.ret, None)
       ELSE Outcome(missed, stored, IF SetRaises(got.b, f) # None THEN PyNone ELSE f,
                    SetRaises(got.b, f))
\* CacheManager.get_or_set; the factory is modelled by the value f it returns
ManagerGetOrSetOf(m, h, key, f, ttl, bk, t) ==
    LET r == GetBackendInstance(m, h, bk)
        cache == r.heap[r.ret]
        name == GetBackendName(cache)
        got == BackendGet(cache, key, t)
        missed == IncrementMetric(r.mgr, "misses", name)
        stored == [r.heap EXCEPT ![r.ret] = BackendSet(got.b, key, f, ttl, t)]
    IN IF r.raised # None THEN r
       ELSE IF got.ret[1] = "raise"
       THEN Outcome(r.mgr, [r.heap EXCEPT ![r.ret] = got.b], PyNone, Some(got.ret[2]))
       ELSE IF got.ret # PyNone
            THEN Outcome(IncrementMetric(r.mgr, "hits", name),
                         [r.heap EXCEPT ![r.ret] = got.b], got.ret, None)
       ELSE IF SetRaises(got.b, f) # None
       THEN Outcome(missed, stored, PyNone, SetRaises(got.b, f))
       ELSE Outcome(IncrementMetric(missed, "sets", name), stored, f, None)

\* hits / total, a float: kept as the fraction
Ratio(hits, total) == [num |-> hits, den |-> total]

\* CacheManager.get_metrics: the snapshot
GetMetrics(m, t) ==
    [hits |-> m.metrics.hits, misses |-> m.metrics.misses,
     sets |-> m.metrics.sets, deletes |-> m.metrics.deletes,
     hit_rates |-> [bk \in DOMAIN m.backends |->
                       LET hits == DictGet(m.metrics.hits, bk, 0)
                           misses == DictGet(m.metrics.misses, bk, 0)
                           total == hits + misses
                       IN IF total > 0 THEN Ratio(hits, total) ELSE Ratio(0, 1)],
     uptime |-> t - m.start_time]

(* A counter mapping is an object: <<"copy", d>> is a dict of its own that  *)
(* holds d, <<"shared", key>> is the manager's dict self._metrics[key].     *)

\* a get_metrics that puts the manager's own dicts into the snapshot
MetricsShared(m) == [key \in DOMAIN m.metrics |-> <<"shared", key>>]
\* CacheManager.get_metrics: metrics[key] = value.copy() for every counter
\* type
MetricsCopy(m) == [key \in DOMAIN m.metrics |-> <<"copy", m.metrics[key]>>]

\* what a counter mapping holds
DictOf(m, obj) == IF obj[1] = "copy" THEN obj[2] ELSE m.metrics[obj[2]]

\* snapshot[key][name] = n, done by the caller that holds the snapshot: the
\* manager and the snapshot afterwards
SnapshotStore(m, snapshot, key, name, n) ==
    IF snapshot[key][1] = "copy"
    THEN [mgr |-> m,
          snap |-> [snapshot EXCEPT ![key] = <<"copy", DictPut(@[2], name, n)>>]]
    ELSE [mgr |-> [m EXCEPT !.metrics[key] = DictPut(@, name, n)], snap |-> snapshot]

(* --------------------------- SpecializedCache -------------------------- *)
(* A key, a namespace and a key part are strings, kept as sequences of      *)
(* one-character strings.                                                   *)

\* ":".join(str(p) for p in parts)
RECURSIVE JoinParts(_)
JoinParts(parts) ==
    IF parts = <<>> THEN <<>>
    ELSE IF Len(parts) = 1 THEN parts[1]
    ELSE parts[1] \o <<":">> \o JoinParts(Tail(parts))

\* SpecializedCache._get_key without the namespace
GetKeyBare(namespace, parts) == JoinParts(parts)
\* SpecializedCache._get_key without the separator
GetKeyGlued(namespace, parts) == namespace \o JoinParts(parts)
\* SpecializedCache._get_key(*parts)
GetKey(namespace, parts) == namespace \o <<":">> \o JoinParts(parts)

(* ------------------ the backend specification: state ------------------ *)
(* One backend instance used directly by one caller.                       *)

VARIABLES
    backend,    \* the backend instance
    now,        \* time.time()
    watch,      \* which history a run records, fixed by the specification:
                \* "writes" (written), "calls" (last, prior), "ops" (did,
                \* done), "memo" (served), "errors" (mraised), "race"
                \* (writers), "default" (served), "snapshot" (snap,
                \* snapWas), "recency" (trail, kept), "disk" (passIn,
                \* passOut, diskOp), "conn" (connCount, diskOp), "account"
                \* (tally), "slots" (ousted, trail, kept);
                \* "manager", "keys" and "codec" record none
    last,       \* history: the last operation when it was a get_or_set that
                \* missed, or a get_or_set on the key of a miss it directly
                \* followed (its key, ttl and result), else NoOp
    prior,      \* history: Some(that miss) in the second case, else None
    pure,       \* history: the MemoryCache holds exactly what no-ttl sets of
                \* distinct keys put into an empty cache
    inserted,   \* history: the <<key, value>> pairs of those sets, in order
    written,    \* history: per key, the last set not yet overwritten,
                \* deleted or evicted: Some([value, until]), else None
    mgr,        \* the CacheManager: _backends, _metrics, default_backend
    heap,       \* the backend instances made so far, in the order made
    mlast,      \* Some(the snapshot) when the last manager operation was
                \* get_metrics, else None
    served,     \* history: <<backend_type, kwargs, instance>> of every
                \* get_backend call that returned, and <<"default", None,
                \* instance>> of every default_backend a method has used
    mraised,    \* history: the exception the last manager method raised
                \* (None when it returned)
    codecIn,    \* the value handed to DiskCache._serialize
    codecData,  \* Some(the data it returned, or its exception), else None
    codecOut,   \* Some(the value DiskCache._deserialize made of the data)
    pc,         \* per caller of CacheManager.get_or_set: where it stands
    frame,      \* per caller: its argument backend, its locals cache (the
                \* instance) and value, the counter value it loaded, and
                \* whether its get missed
    writers,    \* history: the callers whose cache.set has run, in order
    did,        \* history: the last derived-operations step (its name,
                \* whether its key was held but expired, its result)
    done,       \* history: the names of the operations called on a NullCache
    nsA, nsB,   \* the namespaces of two SpecializedCache objects
    keyIn,      \* the key parts handed to the two _get_key calls
    keyOut,     \* the backend keys the two _get_key calls returned
    snap,       \* Some(the dict a get_metrics call returned and its caller
                \* still holds: per counter type the mapping object), else
                \* None
    snapWas,    \* history: what those mappings held when the caller last
                \* looked: at the return of get_metrics, or after the
                \* caller's own last change
    trail,      \* history: the last operation on the MemoryCache when it
                \* was a set or an exists of the key KeptKey and the cache
                \* held that key: its name, its key, whether the cache held
                \* max_size entries before it (full) and its result; else
                \* NoTrail
    passIn,     \* Some(the table as the connection saw it when
                \* _enforce_size_limit began) when the last DiskCache
                \* operation was a set that got that far, else None
    passOut,    \* Some(the table as that pass left it), else None
    diskOp,     \* history: the last DiskCache operation, when the clock has
                \* not moved since: its name, its key, the database file
                \* before it and its result
    connStack,  \* the DiskCache methods in progress, the caller's first:
                \* per method its name, its key, where it stands and the
                \* connection it holds
    connOpen,   \* the connections that are open
    connCount,  \* history: the number of connections acquired by the
                \* operation in progress, or by the last one once it ended
    tally,      \* history: per instance of heap, the calls of the manager's
                \* methods that resolved to it: the completed get and
                \* get_or_set calls (reads), the completed set calls (sets),
                \* the completed get_or_set calls that missed (stores), the
                \* completed delete calls (deletes) and the get_or_set
                \* calls that missed and then raised (broken)
    ousted,     \* history: when the last MemoryCache operation was a set
                \* after which a key is no longer held, Some of those keys
                \* (gone), those of them whose entry had not expired (live)
                \* and the keys still held whose entry has expired (stale);
                \* else None
    kept        \* history: Some of the value the last get of the key
                \* KeptKey returned, when that was not None and the key was
                \* not set, deleted or tested since, with the new keys set
                \* since (news) and whether another held key was promoted
                \* since (touched); else None

backendVars == <<backend, now, watch, last, prior, pure, inserted, written>>
managerVars == <<mgr, heap, mlast, served, mraised>>
keyVars == <<nsA, nsB, keyIn, keyOut>>
opsVars == <<did, done>>
codecVars == <<codecIn, codecData, codecOut>>
raceVars == <<pc, frame, writers>>
snapVars == <<snap, snapWas>>
lruVars == <<trail, kept>>
diskVars == <<passIn, passOut, diskOp>>
connVars == <<connStack, connOpen, connCount>>
acctVars == <<tally>>
slotVars == <<ousted>>
restVars == <<snapVars, lruVars, diskVars, connVars, acctVars, slotVars>>
vars == <<backend, now, watch, last, prior, pure, inserted, written,
          mgr, heap, mlast, served, mraised, nsA, nsB, keyIn, keyOut, did, done,
          codecIn, codecData, codecOut, pc, frame, writers, snap, snapWas,
          trail, kept, passIn, passOut, diskOp, connStack, connOpen, connCount,
          tally, ousted>>

Keys == 1..NumKeys

\* the max_size arguments (bytes) a DiskCache is built with: nothing fits,
\* only "7" fits, "7" and "[1]" fit together, everything fits
DiskSizes == {0, 1, 4, 8}

\* the ttl arguments: none, and one second
TTLs == {None, Some(1)}

\* the values callers store: a MemoryCache keeps any object as it is, so
\* None and one other value stand for all; a DiskCache sees every codec case
ValuesOf(kind) ==
    IF kind = "memory" THEN {PyNone, PyInt(7)}
    ELSE {PyNone, PyInt(7), PyTuple, PySet, PyLambda, PyLocalFunction}

\* the values the factories of get_or_set return: those a set is called
\* with, less the one whose set raises
FactoriesOf(kind) == ValuesOf(kind) \ {PyLocalFunction}

\* the record of an operation called at time now; until is the last clock
\* value of the ttl of what it stored (None without a ttl), calls the number
\* of times it invoked its factory
Op(name, k, ttl, ret, calls) ==
    [op |-> name, key |-> k,
     until |-> IF ttl = None \/ calls = 0 THEN None ELSE Some(now + ttl[1]),
     ret |-> ret, calls |-> calls]

NoOp == [op |-> "other", key |-> 0, until |-> None, ret |-> PyNone, calls |-> 0]

\* last and prior after an operation that is not a get_or_set
NoCall == last' = NoOp /\ prior' = None

\* last and prior after get_or_set(k, f, ttl) returned ret after calls
\* invocations of its factory
Called(k, ttl, ret, calls) ==
    LET follows == last.op = "get_or_set" /\ last.calls = 1 /\ last.key = k
    IN IF watch = "calls" /\ (calls = 1 \/ follows)
       THEN /\ last' = Op("get_or_set", k, ttl, ret, calls)
            /\ prior' = IF follows THEN Some(last) ELSE None
       ELSE NoCall

NoneWritten == [k \in Keys |-> None]

\* what set(k, v, ttl) at time now promises: the value, and the last clock
\* value of its ttl (None without a ttl)
Written(v, ttl) ==
    [value |-> v, until |-> IF ttl = None THEN None ELSE Some(now + ttl[1])]

\* written after set(k, v, ttl) took the backend from b to c
WrittenAfterSet(b, c, k, v, ttl) ==
    IF watch # "writes" THEN written ELSE
    [j \in Keys |->
        CASE b.kind = "memory" ->
               IF j = k
               THEN IF MemHas(c.cache, k)
                    THEN Some(Written(v, ttl))
                    ELSE None
               ELSE IF MemHas(b.cache, j) /\ ~MemHas(c.cache, j)
                    THEN None
                    ELSE written[j]
          [] b.kind = "disk" ->
               IF j = k /\ ~SerializeFails(v) /\ DataLen(Serialize(v)) <= b.max_size
               THEN Some(Written(v, ttl))
               ELSE None
          [] b.kind = "null" -> None]

\* pure and inserted after an operation other than set left the cache as c
Impure(c) ==
    /\ pure' = (c.kind = "memory" /\ c.cache = <<>>)
    /\ inserted' = <<>>

\* pure and inserted after set(k, v, ttl)
PureAfterSet(k, v, ttl) ==
    IF /\ backend.kind = "memory" /\ pure /\ ttl = None
       /\ \A i \in 1..Len(inserted) : inserted[i][1] # k
    THEN pure' = TRUE /\ inserted' = Append(inserted, <<k, v>>)
    ELSE pure' = FALSE /\ inserted' = <<>>

\* the other specifications' variables while a specification leaves them alone
IdleManager ==
    /\ mgr = NewManager(0) /\ heap = <<>> /\ mlast = None /\ served = {}
    /\ mraised = None

IdleKeys == nsA = <<>> /\ nsB = <<>> /\ keyIn = <<>> /\ keyOut = <<>>

\* no derived-operations step yet
NoStep == [op |-> "none", expired |-> FALSE, ret |-> PyNone]

IdleOps == did = NoStep /\ done = {}

IdleCodec == codecIn = PyNone /\ codecData = None /\ codecOut = None

IdleRace == pc = <<>> /\ frame = <<>> /\ writers = <<>>

IdleSnap == snap = None /\ snapWas = None

NoTrail == [op |-> "none", key |-> 0, full |-> FALSE, ret |-> PyNone]

IdleLru == trail = NoTrail /\ kept = None

NoDiskOp == [op |-> "none", key |-> 0, before |-> <<>>, ret |-> PyNone]

IdleDisk == passIn = None /\ passOut = None /\ diskOp = NoDiskOp

IdleConn == connStack = <<>> /\ connOpen = {} /\ connCount = 0

IdleAcct == tally = <<>>

IdleSlots == ousted = None

IdleRest == IdleSnap /\ IdleLru /\ IdleDisk /\ IdleConn /\ IdleAcct /\ IdleSlots

BackendInit ==
    /\ backend \in {NewMemory(m) : m \in 0..MaxMem}
                   \cup {NewDisk(m, <<>>) : m \in DiskSizes}
                   \cup {NewNull}
    /\ now = 0
    /\ last = NoOp
    /\ prior = None
    /\ pure = (backend.kind = "memory")
    /\ inserted = <<>>
    /\ written = NoneWritten

(* ----------------- the backend specification: actions ----------------- *)

Get(k) ==
    LET r == BackendGet(backend, k, now)
    IN /\ backend' = r.b
       /\ NoCall
       /\ Impure(r.b)
       /\ UNCHANGED <<now, watch, written>>

Set(k, v, ttl) ==
    LET c == BackendSet(backend, k, v, ttl, now)
    IN /\ backend' = c
       /\ NoCall
       /\ PureAfterSet(k, v, ttl)
       /\ written' = WrittenAfterSet(backend, c, k, v, ttl)
       /\ UNCHANGED <<now, watch>>

Delete(k) ==
    LET c == BackendDelete(backend, k)
    IN /\ backend' = c
       /\ NoCall
       /\ Impure(c)
       /\ written' = IF watch = "writes" THEN [written EXCEPT ![k] = None] ELSE written
       /\ UNCHANGED <<now, watch>>

Clear ==
    LET c == BackendClear(backend)
    IN /\ backend' = c
       /\ NoCall
       /\ Impure(c)
       /\ written' = NoneWritten
       /\ UNCHANGED <<now, watch>>

Exists(k) ==
    LET r == BackendExists(backend, k, now)
    IN /\ backend' = r.b
       /\ NoCall
       /\ Impure(r.b)
       /\ UNCHANGED <<now, watch, written>>

GetOrSet(k, f, ttl) ==
    LET r == BaseGetOrSet(backend, k, f, ttl, now)
    IN /\ backend' = r.b
       /\ Called(k, ttl, r.ret, r.calls)
       /\ Impure(r.b)
       /\ written' = IF r.calls = 1
                     THEN WrittenAfterSet(backend, r.b, k, f, ttl)
                     ELSE written
       /\ UNCHANGED <<now, watch>>

\* a new DiskCache on the namespace of the old one (a restart of the process)
Reopen(m) ==
    /\ backend.kind = "disk"
    /\ backend' = NewDisk(m, backend.rows)
    /\ NoCall
    /\ UNCHANGED <<now, watch, pure, inserted, written>>

\* the clock advances between two operations
Tick ==
    /\ now < MaxTime
    /\ now' = now + 1
    /\ UNCHANGED <<backend, watch, last, prior, pure, inserted, written>>

\* a step of the backend leaves the manager and the keys alone
BackendOnly ==
    /\ UNCHANGED managerVars /\ UNCHANGED keyVars /\ UNCHANGED opsVars
    /\ UNCHANGED codecVars /\ UNCHANGED raceVars
    /\ UNCHANGED restVars

Next ==
    \/ \E k \in Keys : Get(k) /\ BackendOnly
    \/ \E k \in Keys : \E v \in ValuesOf(backend.kind) : \E ttl \in TTLs :
         Set(k, v, ttl) /\ BackendOnly
    \/ \E k \in Keys : Delete(k) /\ BackendOnly
    \/ Clear /\ BackendOnly
    \/ \E k \in Keys : Exists(k) /\ BackendOnly
    \/ \E k \in Keys : \E f \in FactoriesOf(backend.kind) : \E ttl \in TTLs :
         GetOrSet(k, f, ttl) /\ BackendOnly
    \/ \E m \in DiskSizes : Reopen(m) /\ BackendOnly
    \/ Tick /\ BackendOnly

Init ==
    /\ BackendInit
    /\ watch = "writes"
    /\ IdleManager
    /\ IdleKeys
    /\ IdleOps
    /\ IdleCodec
    /\ IdleRace
    /\ IdleRest

\* the backend specification, recording what was written
Spec == Init /\ [][Next]_vars

InitCalls ==
    /\ BackendInit
    /\ watch = "calls"
    /\ IdleManager
    /\ IdleKeys
    /\ IdleOps
    /\ IdleCodec
    /\ IdleRace
    /\ IdleRest

\* the backend specification, recording the get_or_set calls
SpecCalls == InitCalls /\ [][Next]_vars

(* ----------------- the derived-operations specification --------------- *)
(* One backend under incr, decr, get_many, set_many and delete_many next    *)
(* to the primitive operations, on two keys.                                *)

\* the largest magnitude of a counter the steps let incr and decr reach
MaxInt == 1

OpKeys == {1, 2}

\* the values callers store: None, a counter, a string, a bool
OpValues == {PyNone, PyInt(1), PyStr, PyTrue}

\* the delta arguments
Deltas == {1, -1}

\* the key lists of get_many and delete_many
KeyLists == {<<>>, <<1>>, <<2>>, <<1, 2>>, <<2, 1>>, <<1, 1>>}

\* the dicts of set_many, as their items in iteration order
Mappings ==
    {<<>>, << <<1, PyInt(1)>> >>, << <<1, PyNone>>, <<2, PyStr>> >>,
     << <<2, PyTrue>>, <<1, PyStr>> >>}

\* the values the factories of get_or_set return
OpFactories == {PyNone, PyInt(1)}

\* the backend holds an entry of key k whose ttl has run out at time t
HeldExpired(b, k, t) ==
    CASE b.kind = "memory" ->
           MemHas(b.cache, k) /\ IsExpired(MemLookup(b.cache, k).expires_at, t)
      [] b.kind = "disk" ->
           /\ SqlSelect(b.rows, k) # None
           /\ IsExpired(SqlSelect(b.rows, k)[1].expires_at, t)
      [] b.kind = "null" -> FALSE

\* did and done after the operation name was called with key k (0 without
\* a single key) and gave ret: did keeps the derived operations, and the
\* operations on a key whose ttl had run out
Step(name, k, ret) ==
    LET expired == k # 0 /\ HeldExpired(backend, k, now)
    IN /\ did' = IF expired \/ name \in {"incr", "decr", "get_many", "set_many", "delete_many"}
                 THEN [op |-> name, expired |-> expired, ret |-> ret]
                 ELSE NoStep
       /\ done' = IF backend.kind = "null" THEN done \cup {name} ELSE done

\* what an operation that returns ret or raises gives its caller
Result(ret, raised) == IF raised = None THEN ret ELSE Raise(raised[1])

InitOps ==
    /\ backend \in {NewMemory(m) : m \in 0..MaxMem} \cup {NewDisk(8, <<>>), NewNull}
    /\ now = 0
    /\ last = NoOp /\ prior = None
    /\ pure = FALSE /\ inserted = <<>> /\ written = NoneWritten
    /\ watch = "ops"
    /\ IdleManager
    /\ IdleKeys
    /\ IdleOps
    /\ IdleCodec
    /\ IdleRace
    /\ IdleRest

OpsUnchanged == UNCHANGED <<now, watch, last, prior, pure, inserted, written>>

OpsGet(k) ==
    LET r == BackendGet(backend, k, now)
    IN backend' = r.b /\ Step("get", k, r.ret) /\ OpsUnchanged

OpsSet(k, v, ttl) ==
    /\ backend' = BackendSet(backend, k, v, ttl, now)
    /\ Step("set", k, Result(PyNone, SetRaises(backend, v)))
    /\ OpsUnchanged

OpsDelete(k) ==
    backend' = BackendDelete(backend, k) /\ Step("delete", k, PyNone) /\ OpsUnchanged

OpsClear ==
    backend' = BackendClear(backend) /\ Step("clear", 0, PyNone) /\ OpsUnchanged

OpsExists(k) ==
    LET r == BackendExists(backend, k, now)
    IN backend' = r.b /\ Step("exists", k, PyBool(r.ret)) /\ OpsUnchanged

\* did keeps the number of times the factory was invoked
OpsGetOrSet(k, f, ttl) ==
    LET r == BaseGetOrSet(backend, k, f, ttl, now)
    IN backend' = r.b /\ Step("get_or_set", k, PyInt(r.calls)) /\ OpsUnchanged

\* the steps keep a counter within MaxInt
Incr(k, delta) ==
    LET r == BaseIncr(backend, k, delta, now)
    IN /\ r.raised = None => r.ret[2] \in -MaxInt..MaxInt
       /\ backend' = r.b
       /\ Step("incr", k, Result(r.ret, r.raised))
       /\ OpsUnchanged

Decr(k, delta) ==
    LET r == BaseDecr(backend, k, delta, now)
    IN /\ r.raised = None => r.ret[2] \in -MaxInt..MaxInt
       /\ backend' = r.b
       /\ Step("decr", k, Result(r.ret, r.raised))
       /\ OpsUnchanged

\* did keeps the keys of the dict returned: 0 none, 1, 2, or 3 for both
GetMany(keys) ==
    LET r == BaseGetMany(backend, keys, now)
    IN /\ backend' = r.b
       /\ Step("get_many", 0,
               PyInt((IF DictHas(r.ret, 1) THEN 1 ELSE 0) + (IF DictHas(r.ret, 2) THEN 2 ELSE 0)))
       /\ OpsUnchanged

SetMany(mapping, ttl) ==
    LET r == BaseSetMany(backend, mapping, ttl, now)
    IN /\ backend' = r.b
       /\ Step("set_many", 0, Result(PyNone, r.raised))
       /\ OpsUnchanged

DeleteMany(keys) ==
    /\ backend' = BaseDeleteMany(backend, keys)
    /\ Step("delete_many", 0, PyNone)
    /\ OpsUnchanged

OpsTick ==
    /\ now < MaxTime
    /\ now' = now + 1
    /\ UNCHANGED <<backend, watch, last, prior, pure, inserted, written, did, done>>

\* a step of the derived operations leaves the manager and the keys alone
OpsOnly ==
    UNCHANGED managerVars /\ UNCHANGED keyVars /\ UNCHANGED codecVars /\ UNCHANGED raceVars /\ UNCHANGED restVars

NextOps ==
    \/ \E k \in OpKeys : OpsGet(k) /\ OpsOnly
    \/ \E k \in OpKeys : \E v \in OpValues : \E ttl \in TTLs : OpsSet(k, v, ttl) /\ OpsOnly
    \/ \E k \in OpKeys : OpsDelete(k) /\ OpsOnly
    \/ OpsClear /\ OpsOnly
    \/ \E k \in OpKeys : OpsExists(k) /\ OpsOnly
    \/ \E k \in OpKeys : \E f \in OpFactories : \E ttl \in TTLs : OpsGetOrSet(k, f, ttl) /\ OpsOnly
    \/ \E k \in OpKeys : \E delta \in Deltas : Incr(k, delta) /\ OpsOnly
    \/ \E k \in OpKeys : \E delta \in Deltas : Decr(k, delta) /\ OpsOnly
    \/ \E keys \in KeyLists : GetMany(keys) /\ OpsOnly
    \/ \E mapping \in Mappings : \E ttl \in TTLs : SetMany(mapping, ttl) /\ OpsOnly
    \/ \E keys \in KeyLists : DeleteMany(keys) /\ OpsOnly
    \/ OpsTick /\ OpsOnly

\* the derived-operations specification
SpecOps == InitOps /\ [][NextOps]_vars

(* --------------------- the recency specification ---------------------- *)
(* One MemoryCache under get, set, delete, clear and exists, with the       *)
(* history of what was read and what was set after it.                      *)

InitLru ==
    /\ backend \in {NewMemory(m) : m \in 0..MaxMem}
    /\ now = 0
    /\ last = NoOp /\ prior = None
    /\ pure = FALSE /\ inserted = <<>> /\ written = NoneWritten
    /\ watch = "recency"
    /\ IdleManager
    /\ IdleKeys
    /\ IdleOps
    /\ IdleCodec
    /\ IdleRace
    /\ IdleSnap /\ IdleDisk /\ IdleConn /\ IdleAcct /\ IdleSlots
    /\ trail = NoTrail
    /\ kept = None

\* the key is in self._cache and its ttl has not run out
MemLive(cache, k, t) == MemHas(cache, k) /\ ~IsExpired(MemLookup(cache, k).expires_at, t)

\* the key that the histories trail and kept follow: the code treats all
\* keys alike
KeptKey == CHOOSE k \in Keys : \A j \in Keys : k <= j

\* trail after the operation name on key k gave ret
Trail(name, k, ret) ==
    trail' = IF name \in {"set", "exists"} /\ k = KeptKey /\ MemHas(backend.cache, k)
             THEN [op |-> name, key |-> k,
                   full |-> Len(backend.cache) = backend.max_size, ret |-> ret]
             ELSE NoTrail

\* kept after an operation on key k: reads is Some(the value) when it was a
\* get that returned one, promoted says that it moved an entry already held
\* to the most recently used end, added that it set a key not held
Kept(k, reads, promoted, added) ==
    kept' = IF k = KeptKey
            THEN IF reads = None THEN None
                 ELSE Some([value |-> reads[1], news |-> {}, touched |-> FALSE])
            ELSE IF kept = None THEN None
            ELSE Some([kept[1] EXCEPT !.touched = @ \/ promoted,
                                      !.news = IF added THEN @ \cup {k} ELSE @])

LruUnchanged == UNCHANGED <<now, watch, last, prior, pure, inserted, written>>

LruGet(k) ==
    LET r == MemGet(backend.cache, k, now)
    IN /\ backend' = [backend EXCEPT !.cache = r.cache]
       /\ Trail("get", k, r.ret)
       /\ Kept(k, IF r.ret = PyNone THEN None ELSE Some(r.ret),
               MemLive(backend.cache, k, now), FALSE)
       /\ LruUnchanged

LruSet(k, v, ttl) ==
    /\ backend' = [backend EXCEPT !.cache = MemSet(@, backend.max_size, k, v, ttl, now)]
    /\ Trail("set", k, PyNone)
    /\ Kept(k, None, MemHas(backend.cache, k), ~MemHas(backend.cache, k))
    /\ LruUnchanged

LruDelete(k) ==
    /\ backend' = [backend EXCEPT !.cache = MemDelete(@, k)]
    /\ Trail("delete", k, PyNone)
    /\ Kept(k, None, FALSE, FALSE)
    /\ LruUnchanged

LruClear ==
    /\ backend' = [backend EXCEPT !.cache = MemClear(@)]
    /\ trail' = NoTrail
    /\ kept' = None
    /\ LruUnchanged

LruExists(k) ==
    LET r == MemExists(backend.cache, k, now)
    IN /\ backend' = [backend EXCEPT !.cache = r.cache]
       /\ Trail("exists", k, PyBool(r.ret))
       /\ Kept(k, None, FALSE, FALSE)
       /\ LruUnchanged

LruTick ==
    /\ now < MaxTime
    /\ now' = now + 1
    /\ UNCHANGED <<backend, watch, last, prior, pure, inserted, written, trail, kept>>

\* a step of the MemoryCache leaves everything else alone
LruOnly ==
    /\ UNCHANGED managerVars /\ UNCHANGED keyVars /\ UNCHANGED opsVars
    /\ UNCHANGED codecVars /\ UNCHANGED raceVars /\ UNCHANGED snapVars
    /\ UNCHANGED diskVars /\ UNCHANGED connVars /\ UNCHANGED acctVars
    /\ UNCHANGED slotVars

NextLru ==
    \/ \E k \in Keys : LruGet(k) /\ LruOnly
    \/ \E k \in Keys : \E v \in ValuesOf("memory") : \E ttl \in TTLs :
         LruSet(k, v, ttl) /\ LruOnly
    \/ \E k \in Keys : LruDelete(k) /\ LruOnly
    \/ LruClear /\ LruOnly
    \/ \E k \in Keys : LruExists(k) /\ LruOnly
    \/ LruTick /\ LruOnly

\* the recency specification
SpecLru == InitLru /\ [][NextLru]_vars

(* ----------------------- the slots specification ---------------------- *)
(* The MemoryCache of the recency specification, with the history of what   *)
(* the last set has put out of the cache.                                   *)

InitSlots ==
    /\ backend \in {NewMemory(m) : m \in 0..MaxMem}
    /\ now = 0
    /\ last = NoOp /\ prior = None
    /\ pure = FALSE /\ inserted = <<>> /\ written = NoneWritten
    /\ watch = "slots"
    /\ IdleManager
    /\ IdleKeys
    /\ IdleOps
    /\ IdleCodec
    /\ IdleRace
    /\ IdleRest

\* the keys of a cache
KeysOf(cache) == {cache[i].key : i \in 1..Len(cache)}

\* ousted after a set of key k at time t took the cache from before to after
Ousted(k, before, after, t) ==
    LET gone == (KeysOf(before) \cup {k}) \ KeysOf(after)
    IN IF gone = {} THEN None
       ELSE Some([gone |-> gone,
                  live |-> {g \in gone \ {k} : MemLive(before, g, t)},
                  stale |-> {s \in KeysOf(after) :
                               IsExpired(MemLookup(after, s).expires_at, t)}])

SlotsGet(k) == LruGet(k) /\ ousted' = None

SlotsSet(k, v, ttl) ==
    /\ LruSet(k, v, ttl)
    /\ ousted' = Ousted(k, backend.cache,
                        MemSet(backend.cache, backend.max_size, k, v, ttl, now), now)

SlotsDelete(k) == LruDelete(k) /\ ousted' = None

SlotsClear == LruClear /\ ousted' = None

SlotsExists(k) == LruExists(k) /\ ousted' = None

SlotsTick == LruTick /\ ousted' = None

\* a step of the MemoryCache and its histories leaves everything else alone
SlotsOnly ==
    /\ UNCHANGED managerVars /\ UNCHANGED keyVars /\ UNCHANGED opsVars
    /\ UNCHANGED codecVars /\ UNCHANGED raceVars /\ UNCHANGED snapVars
    /\ UNCHANGED diskVars /\ UNCHANGED connVars /\ UNCHANGED acctVars

NextSlots ==
    \/ \E k \in Keys : SlotsGet(k) /\ SlotsOnly
    \/ \E k \in Keys : \E v \in ValuesOf("memory") : \E ttl \in TTLs :
         SlotsSet(k, v, ttl) /\ SlotsOnly
    \/ \E k \in Keys : SlotsDelete(k) /\ SlotsOnly
    \/ SlotsClear /\ SlotsOnly
    \/ \E k \in Keys : SlotsExists(k) /\ SlotsOnly
    \/ SlotsTick /\ SlotsOnly

\* the slots specification
SpecSlots == InitSlots /\ [][NextSlots]_vars

(* ----------------------- the disk specification ---------------------- *)
(* One DiskCache on a database file that holds rows committed by another    *)
(* writer: the table is created only if it does not exist, so the rows are  *)
(* there from the first operation on.                                       *)

\* the values of the rows in the file: 7, [1] and the two undecodable ones
FileData == {Serialize(PyInt(7)), Serialize(PyList), Garbage, CutPickle}

\* the rows: two keys, with and without an expiry, created at 0 or 1
FileRows ==
    {Row(k, d, e, c) : k \in 1..2, d \in FileData, e \in {None, Some(1)}, c \in {0, 1}}

\* the files: no row, one row, or two rows of different keys
DiskFiles ==
    {<<>>} \cup {<<r>> : r \in {x \in FileRows : x.value # Garbage}}
    \cup {<<r, s>> : r \in {x \in FileRows : x.key = 2 /\ x.value[1] = "json"},
                     s \in {x \in FileRows : x.key = 1 /\ x.value # CutPickle}}

\* the values handed to set: one of each size, and one that no codec takes
DiskValues == {PyInt(7), PyList, PyLambda}

InitDisk ==
    /\ backend \in {NewDisk(m, file) : m \in DiskSizes, file \in DiskFiles}
    /\ now = 1
    /\ last = NoOp /\ prior = None
    /\ pure = FALSE /\ inserted = <<>> /\ written = NoneWritten
    /\ watch = "disk"
    /\ IdleManager
    /\ IdleKeys
    /\ IdleOps
    /\ IdleCodec
    /\ IdleRace
    /\ IdleRest

\* diskOp after the operation name on key k gave ret
DiskOp(name, k, ret) ==
    diskOp' = [op |-> name, key |-> k, before |-> backend.rows, ret |-> ret]

DiskUnchanged == UNCHANGED <<now, watch, last, prior, pure, inserted, written>>

DiskCacheGet(k) ==
    LET r == DiskGet(backend.rows, k, now)
    IN /\ backend' = [backend EXCEPT !.rows = r.rows]
       /\ DiskOp("get", k, r.ret)
       /\ passIn' = None /\ passOut' = None
       /\ DiskUnchanged

\* set: passIn and passOut are the table of the connection before and after
\* _enforce_size_limit, when set got that far
DiskCacheSet(k, v, ttl) ==
    LET view == SqlInsertOrReplace(Connect(backend.rows),
                                   Row(k, Serialize(v), ExpiresAt(ttl, now), now))
    IN /\ backend' = [backend EXCEPT !.rows = DiskSet(@, backend.max_size, k, v, ttl, now)]
       /\ DiskOp("set", k, Result(PyNone, IF SerializeRaises(v) = Some("CacheError")
                                          THEN None ELSE SerializeRaises(v)))
       /\ passIn' = IF SerializeFails(v) THEN None ELSE Some(view)
       /\ passOut' = IF SerializeFails(v) THEN None
                     ELSE Some(EnforceSizeLimit(view, backend.max_size, now))
       /\ DiskUnchanged

DiskCacheDelete(k) ==
    /\ backend' = [backend EXCEPT !.rows = DiskDelete(@, k)]
    /\ DiskOp("delete", k, PyNone)
    /\ passIn' = None /\ passOut' = None
    /\ DiskUnchanged

DiskCacheClear ==
    /\ backend' = [backend EXCEPT !.rows = DiskClear(@)]
    /\ DiskOp("clear", 0, PyNone)
    /\ passIn' = None /\ passOut' = None
    /\ DiskUnchanged

DiskCacheExists(k) ==
    LET r == DiskExists(backend.rows, k, now)
    IN /\ backend' = [backend EXCEPT !.rows = r.rows]
       /\ DiskOp("exists", k, PyBool(r.ret))
       /\ passIn' = None /\ passOut' = None
       /\ DiskUnchanged

\* the histories describe an operation made at the present clock value
DiskTick ==
    /\ now < MaxTime
    /\ now' = now + 1
    /\ UNCHANGED <<backend, watch, last, prior, pure, inserted, written>>
    /\ passIn' = None /\ passOut' = None /\ diskOp' = NoDiskOp

\* a step of the DiskCache leaves everything else alone
DiskOnly ==
    /\ UNCHANGED managerVars /\ UNCHANGED keyVars /\ UNCHANGED opsVars
    /\ UNCHANGED codecVars /\ UNCHANGED raceVars /\ UNCHANGED snapVars
    /\ UNCHANGED lruVars /\ UNCHANGED connVars /\ UNCHANGED acctVars
    /\ UNCHANGED slotVars

NextDisk ==
    \/ \E k \in Keys : DiskCacheGet(k) /\ DiskOnly
    \/ \E k \in Keys : \E v \in DiskValues : \E ttl \in TTLs :
         DiskCacheSet(k, v, ttl) /\ DiskOnly
    \/ \E k \in Keys : DiskCacheDelete(k) /\ DiskOnly
    \/ DiskCacheClear /\ DiskOnly
    \/ \E k \in Keys : DiskCacheExists(k) /\ DiskOnly
    \/ DiskTick /\ DiskOnly

\* the disk specification
SpecDisk == InitDisk /\ [][NextDisk]_vars

(* -------------------- the connection specification -------------------- *)
(* One DiskCache, its methods taken a step at a time: the call, the        *)
(* sqlite3.connect of _get_connection, the body of the with block, the     *)
(* conn.close() of the finally clause, and the return.                     *)

\* the files: no row or one row
ConnFiles == {f \in DiskFiles : Len(f) <= 1}

\* the arguments a method call does not take
NoArgs == [key |-> 0, value |-> PyNone, ttl |-> None]

\* a method at its first step: set serializes before the with block, and
\* leaves (returns or raises) without one when that fails
Frame(name, args) ==
    [op |-> name, key |-> args.key, value |-> args.value, ttl |-> args.ttl,
     pc |-> IF name = "set" /\ SerializeFails(args.value) THEN "done" ELSE "connect",
     conn |-> 0]

\* the method that is running, and the stack with that method moved on
Top == connStack[Len(connStack)]
Moved(f) == [connStack EXCEPT ![Len(connStack)] = f]

\* the file and the result once the method of frame f, called on the file,
\* has returned
Ended(f, file) ==
    CASE f.op = "get" -> DiskGet(file, f.key, now)
      [] f.op = "exists" ->
           [rows |-> DiskExists(file, f.key, now).rows,
            ret |-> PyBool(DiskExists(file, f.key, now).ret)]
      [] f.op = "set" ->
           [rows |-> DiskSet(file, backend.max_size, f.key, f.value, f.ttl, now),
            ret |-> Result(PyNone, IF SerializeRaises(f.value) = Some("CacheError")
                                   THEN None ELSE SerializeRaises(f.value))]
      [] f.op = "delete" -> [rows |-> DiskDelete(file, f.key), ret |-> PyNone]
      [] OTHER -> [rows |-> DiskClear(file), ret |-> PyNone]

InitConn ==
    /\ backend \in {NewDisk(m, file) : m \in DiskSizes, file \in ConnFiles}
    /\ now = 1
    /\ last = NoOp /\ prior = None
    /\ pure = FALSE /\ inserted = <<>> /\ written = NoneWritten
    /\ watch = "conn"
    /\ IdleManager
    /\ IdleKeys
    /\ IdleOps
    /\ IdleCodec
    /\ IdleRace
    /\ IdleRest

ConnUnchanged ==
    UNCHANGED <<watch, last, prior, pure, inserted, written, passIn, passOut>>

\* a caller calls a method of the DiskCache
ConnCall(name, args) ==
    /\ connStack = <<>>
    /\ connStack' = <<Frame(name, args)>>
    /\ connCount' = 0
    /\ diskOp' = NoDiskOp
    /\ UNCHANGED <<backend, now, connOpen>>
    /\ ConnUnchanged

\* with self._get_connection() as conn: sqlite3.connect
ConnAcquire ==
    /\ connStack # <<>>
    /\ Top.pc = "connect"
    /\ connStack' = Moved([Top EXCEPT !.pc = "body", !.conn = connCount + 1])
    /\ connOpen' = connOpen \cup {connCount + 1}
    /\ connCount' = connCount + 1
    /\ UNCHANGED <<backend, now, diskOp>>
    /\ ConnUnchanged

\* the row get and exists select is expired
SeesExpired(f) ==
    /\ f.op \in {"get", "exists"}
    /\ SqlSelect(Connect(backend.rows), f.key) # None
    /\ IsExpired(SqlSelect(Connect(backend.rows), f.key)[1].expires_at, now)

\* the body of the with block: get and exists on an expired row call
\* self.delete(key) from inside it, every other path runs to its end
ConnBody ==
    /\ connStack # <<>>
    /\ Top.pc = "body"
    /\ connStack' =
         IF SeesExpired(Top)
         THEN Append(Moved([Top EXCEPT !.pc = "close"]),
                     Frame("delete", [NoArgs EXCEPT !.key = Top.key]))
         ELSE Moved([Top EXCEPT !.pc = "close"])
    /\ UNCHANGED <<backend, now, diskOp, connOpen, connCount>>
    /\ ConnUnchanged

\* finally: conn.close(), on a return and on an exception alike
ConnRelease ==
    /\ connStack # <<>>
    /\ Top.pc = "close"
    /\ connStack' = Moved([Top EXCEPT !.pc = "done"])
    /\ connOpen' = connOpen \ {Top.conn}
    /\ UNCHANGED <<backend, now, diskOp, connCount>>
    /\ ConnUnchanged

\* the method returns or raises; the caller's method leaves the file and
\* the result of the whole operation
ConnReturn ==
    /\ connStack # <<>>
    /\ Top.pc = "done"
    /\ connStack' = SubSeq(connStack, 1, Len(connStack) - 1)
    /\ IF Len(connStack) = 1
       THEN /\ backend' = [backend EXCEPT !.rows = Ended(Top, backend.rows).rows]
            /\ diskOp' = [op |-> Top.op, key |-> Top.key, before |-> backend.rows,
                          ret |-> Ended(Top, backend.rows).ret]
       ELSE UNCHANGED <<backend, diskOp>>
    /\ UNCHANGED <<now, connOpen, connCount>>
    /\ ConnUnchanged

\* the clock moves between operations
ConnTick ==
    /\ connStack = <<>>
    /\ now < MaxTime
    /\ now' = now + 1
    /\ diskOp' = NoDiskOp
    /\ UNCHANGED <<backend, connStack, connOpen, connCount>>
    /\ ConnUnchanged

\* a step of the connections leaves everything else alone
ConnOnly ==
    /\ UNCHANGED managerVars /\ UNCHANGED keyVars /\ UNCHANGED opsVars
    /\ UNCHANGED codecVars /\ UNCHANGED raceVars /\ UNCHANGED snapVars
    /\ UNCHANGED lruVars /\ UNCHANGED acctVars
    /\ UNCHANGED slotVars

NextConn ==
    \/ \E k \in Keys : ConnCall("get", [NoArgs EXCEPT !.key = k]) /\ ConnOnly
    \/ \E k \in Keys : \E v \in DiskValues : \E ttl \in TTLs :
         ConnCall("set", [key |-> k, value |-> v, ttl |-> ttl]) /\ ConnOnly
    \/ \E k \in Keys : ConnCall("delete", [NoArgs EXCEPT !.key = k]) /\ ConnOnly
    \/ ConnCall("clear", NoArgs) /\ ConnOnly
    \/ \E k \in Keys : ConnCall("exists", [NoArgs EXCEPT !.key = k]) /\ ConnOnly
    \/ ConnAcquire /\ ConnOnly
    \/ ConnBody /\ ConnOnly
    \/ ConnRelease /\ ConnOnly
    \/ ConnReturn /\ ConnOnly
    \/ ConnTick /\ ConnOnly

\* the connection specification
SpecConn == InitConn /\ [][NextConn]_vars

(* --------------------- the manager specification ---------------------- *)
(* One CacheManager and two SpecializedCache objects on it; every call      *)
(* reads the clock once.                                                    *)

\* most counted operations (get, set, delete, get_or_set) in a run
MaxCalls == 3

\* a string as the sequence of its characters
KeyK == <<"k">>

\* the keys handed to the manager's methods
MgrKeys == {<<"a", ":", "k">>}

\* the key handed to the specialized caches' methods
RawKeys == {KeyK}

\* the values handed to set, and the values the factories return
MgrValues == {PyInt(7)}
MgrFactories == {PyNone, PyInt(7)}

\* the manager methods are called without a ttl
MgrTTLs == {None}

\* the constructor arguments of the get_backend calls
KwargSets == {None, Some(-1), Some(-2), Some(1)}

\* the get_backend calls: every type and argument where the calls are
\* recorded, else the one that makes a MemoryCache of one entry
GetBackendCalls ==
    CASE watch = "memo" ->
           {<<"memory", kw>> : kw \in KwargSets}
           \cup {<<"null", None>>, <<"disk", None>>, <<"bogus", None>>}
      [] watch = "errors" ->
           {<<"memory", Some(-1)>>, <<"disk", None>>, <<"bogus", None>>}
      [] watch = "default" -> {<<"memory", None>>, <<"memory", Some(1)>>}
      [] watch = "account" -> {<<"memory", Some(-1)>>}
      [] OTHER -> {<<"memory", Some(1)>>}

\* the backend arguments of the other methods: none (the default backend,
\* which is get_backend("memory")), a type string, an unknown type string,
\* an object that is no backend, and the instances made so far
BackendArgs ==
    {NoBackend, TypeName("null"), TypeName("bogus"), NotABackend}
    \cup {Instance(i) : i \in 1..Len(heap)}

SumOfDict(d) == DictGet(d, "memory", 0) + DictGet(d, "disk", 0) + DictGet(d, "null", 0)

\* the operations counted so far
Calls(m) ==
    SumOfDict(m.metrics.hits) + SumOfDict(m.metrics.misses)
    + SumOfDict(m.metrics.sets) + SumOfDict(m.metrics.deletes)

\* a manager method has run
Ran(o) ==
    /\ mgr' = o.mgr
    /\ heap' = o.heap
    /\ mlast' = None
    /\ mraised' = IF watch = "errors" THEN o.raised ELSE None
    /\ served' = IF watch = "default" /\ o.mgr.default # None
                 THEN served \cup {<<"default", None, o.mgr.default[1]>>}
                 ELSE served

ManagerGetBackend(backend_type, kwargs) ==
    LET o == GetBackend(mgr, heap, backend_type, kwargs)
    IN /\ mgr' = o.mgr
       /\ heap' = o.heap
       /\ mlast' = None
       /\ served' = IF watch \in {"memo", "default"} /\ o.raised = None
                    THEN served \cup {<<backend_type, kwargs, o.ret>>}
                    ELSE served
       /\ mraised' = IF watch = "errors" THEN o.raised ELSE None

ManagerGet(key, bk) ==
    /\ Calls(mgr) < MaxCalls
    /\ Ran(ManagerGetOf(mgr, heap, key, bk, now))

ManagerSet(key, value, ttl, bk) ==
    /\ Calls(mgr) < MaxCalls
    /\ Ran(ManagerSetOf(mgr, heap, key, value, ttl, bk, now))

ManagerDelete(key, bk) ==
    /\ Calls(mgr) < MaxCalls
    /\ Ran(ManagerDeleteOf(mgr, heap, key, bk))

ManagerClear(bk) == Ran(ManagerClearOf(mgr, heap, bk))

ManagerExists(key, bk) == Ran(ManagerExistsOf(mgr, heap, key, bk, now))

ManagerGetOrSet(key, f, ttl, bk) ==
    /\ Calls(mgr) < MaxCalls
    /\ Ran(ManagerGetOrSetOf(mgr, heap, key, f, ttl, bk, now))

ManagerGetMetrics ==
    /\ mlast' = Some(GetMetrics(mgr, now))
    /\ UNCHANGED <<mgr, heap, served, mraised>>

\* SpecializedCache.__init__: self.namespace of the two caches "A" and "B"
Namespace(c) == IF c = "A" THEN nsA ELSE nsB

Caches == {"A", "B"}

\* SpecializedCache.get
SpecializedGet(c, key, bk) == ManagerGet(GetKey(Namespace(c), <<key>>), bk)

\* SpecializedCache.set
SpecializedSet(c, key, value, ttl, bk) ==
    ManagerSet(GetKey(Namespace(c), <<key>>), value, ttl, bk)

\* SpecializedCache.delete
SpecializedDelete(c, key, bk) == ManagerDelete(GetKey(Namespace(c), <<key>>), bk)

\* SpecializedCache.exists
SpecializedExists(c, key, bk) == ManagerExists(GetKey(Namespace(c), <<key>>), bk)

\* SpecializedCache.get_or_set
SpecializedGetOrSet(c, key, f, ttl, bk) ==
    ManagerGetOrSet(GetKey(Namespace(c), <<key>>), f, ttl, bk)

IdleBackend ==
    /\ backend = NewNull /\ now = 0 /\ last = NoOp /\ prior = None
    /\ pure = FALSE /\ inserted = <<>> /\ written = NoneWritten

InitMgr ==
    /\ IdleBackend
    /\ watch = "manager"
    /\ IdleManager
    /\ nsA = <<"a">> /\ nsB = <<"b">> /\ keyIn = <<>> /\ keyOut = <<>>
    /\ IdleOps
    /\ IdleCodec
    /\ IdleRace
    /\ IdleRest

\* a step of the manager leaves the one backend and the keys alone
ManagerOnly ==
    /\ UNCHANGED backendVars /\ UNCHANGED keyVars /\ UNCHANGED opsVars
    /\ UNCHANGED codecVars /\ UNCHANGED raceVars
    /\ UNCHANGED restVars

NextMgr ==
    \/ \E call \in GetBackendCalls : ManagerGetBackend(call[1], call[2]) /\ ManagerOnly
    \/ \E key \in MgrKeys : \E bk \in BackendArgs : ManagerGet(key, bk) /\ ManagerOnly
    \/ \E key \in MgrKeys : \E value \in MgrValues : \E ttl \in MgrTTLs :
         \E bk \in BackendArgs : ManagerSet(key, value, ttl, bk) /\ ManagerOnly
    \/ \E key \in MgrKeys : \E bk \in BackendArgs : ManagerDelete(key, bk) /\ ManagerOnly
    \/ \E bk \in BackendArgs : ManagerClear(bk) /\ ManagerOnly
    \/ \E key \in MgrKeys : \E bk \in BackendArgs : ManagerExists(key, bk) /\ ManagerOnly
    \/ \E key \in MgrKeys : \E f \in MgrFactories : \E ttl \in MgrTTLs :
         \E bk \in BackendArgs : ManagerGetOrSet(key, f, ttl, bk) /\ ManagerOnly
    \/ ManagerGetMetrics /\ ManagerOnly
    \/ \E c \in Caches : \E key \in RawKeys : \E bk \in BackendArgs :
         SpecializedGet(c, key, bk) /\ ManagerOnly
    \/ \E c \in Caches : \E key \in RawKeys : \E value \in MgrValues :
         \E ttl \in MgrTTLs : \E bk \in BackendArgs :
           SpecializedSet(c, key, value, ttl, bk) /\ ManagerOnly
    \/ \E c \in Caches : \E key \in RawKeys : \E bk \in BackendArgs :
         SpecializedDelete(c, key, bk) /\ ManagerOnly
    \/ \E c \in Caches : \E key \in RawKeys : \E bk \in BackendArgs :
         SpecializedExists(c, key, bk) /\ ManagerOnly
    \/ \E c \in Caches : \E key \in RawKeys : \E f \in MgrFactories :
         \E ttl \in MgrTTLs : \E bk \in BackendArgs :
           SpecializedGetOrSet(c, key, f, ttl, bk) /\ ManagerOnly

\* the manager specification
SpecMgr == InitMgr /\ [][NextMgr]_vars

InitMemo ==
    /\ IdleBackend
    /\ watch = "memo"
    /\ IdleManager
    /\ nsA = <<"a">> /\ nsB = <<"b">> /\ keyIn = <<>> /\ keyOut = <<>>
    /\ IdleOps
    /\ IdleCodec
    /\ IdleRace
    /\ IdleRest

\* get_backend calls, and the methods that leave the counters alone
NextMemo ==
    \/ \E call \in GetBackendCalls : ManagerGetBackend(call[1], call[2]) /\ ManagerOnly
    \/ \E bk \in BackendArgs : ManagerClear(bk) /\ ManagerOnly
    \/ \E key \in MgrKeys : \E bk \in BackendArgs : ManagerExists(key, bk) /\ ManagerOnly

\* the manager specification, recording the get_backend calls
SpecMemo == InitMemo /\ [][NextMemo]_vars

\* the values and factory results of the calls that can fail: one that every
\* backend takes, and one that DiskCache._serialize lets an exception
\* through for
ErrValues == {PyInt(7), PyLocalFunction}

\* a database file with one row whose value is neither JSON text nor a
\* pickle: the row of key "a:k" that another writer has committed
ForeignFile == <<Row(<<"a", ":", "k">>, <<"bytes", 0>>, None, 0)>>

\* a manager and a DiskCache the caller has built on that file
InitErr ==
    /\ IdleBackend
    /\ watch = "errors"
    /\ mgr = NewManager(0) /\ heap = <<NewDisk(8, ForeignFile)>> /\ mlast = None
    /\ served = {} /\ mraised = None
    /\ nsA = <<"a">> /\ nsB = <<"b">> /\ keyIn = <<>> /\ keyOut = <<>>
    /\ IdleOps
    /\ IdleCodec
    /\ IdleRace
    /\ IdleRest

\* get_backend calls, and the methods that count
NextErr ==
    \/ \E call \in GetBackendCalls : ManagerGetBackend(call[1], call[2]) /\ ManagerOnly
    \/ \E key \in MgrKeys : \E bk \in BackendArgs : ManagerGet(key, bk) /\ ManagerOnly
    \/ \E key \in MgrKeys : \E value \in ErrValues : \E ttl \in MgrTTLs :
         \E bk \in BackendArgs : ManagerSet(key, value, ttl, bk) /\ ManagerOnly
    \/ \E key \in MgrKeys : \E bk \in BackendArgs : ManagerDelete(key, bk) /\ ManagerOnly
    \/ \E key \in MgrKeys : \E f \in ErrValues : \E ttl \in MgrTTLs :
         \E bk \in BackendArgs : ManagerGetOrSet(key, f, ttl, bk) /\ ManagerOnly

\* the manager specification, recording the exceptions
SpecErr == InitErr /\ [][NextErr]_vars

\* the backend arguments that name the default MemoryCache, and the
\* instances made so far
DefaultArgs == {NoBackend, TypeName("memory")} \cup {Instance(i) : i \in 1..Len(heap)}

InitDefault ==
    /\ IdleBackend
    /\ watch = "default"
    /\ IdleManager
    /\ nsA = <<"a">> /\ nsB = <<"b">> /\ keyIn = <<>> /\ keyOut = <<>>
    /\ IdleOps
    /\ IdleCodec
    /\ IdleRace
    /\ IdleRest

\* get_backend calls and the methods, without a backend and with "memory"
NextDefault ==
    \/ \E call \in GetBackendCalls : ManagerGetBackend(call[1], call[2]) /\ ManagerOnly
    \/ \E key \in MgrKeys : \E bk \in DefaultArgs : ManagerGet(key, bk) /\ ManagerOnly
    \/ \E key \in MgrKeys : \E value \in MgrValues : \E ttl \in MgrTTLs :
         \E bk \in DefaultArgs : ManagerSet(key, value, ttl, bk) /\ ManagerOnly
    \/ \E key \in MgrKeys : \E bk \in DefaultArgs : ManagerDelete(key, bk) /\ ManagerOnly
    \/ \E bk \in DefaultArgs : ManagerClear(bk) /\ ManagerOnly
    \/ \E key \in MgrKeys : \E bk \in DefaultArgs : ManagerExists(key, bk) /\ ManagerOnly
    \/ \E key \in MgrKeys : \E f \in MgrFactories : \E ttl \in MgrTTLs :
         \E bk \in DefaultArgs : ManagerGetOrSet(key, f, ttl, bk) /\ ManagerOnly

\* the manager specification, recording the instances handed out
SpecDefault == InitDefault /\ [][NextDefault]_vars

(* -------------------- the accounting specification -------------------- *)
(* One CacheManager, a DiskCache on a file with a committed row and a       *)
(* MemoryCache of one entry, both built by the caller; the calls that       *)
(* complete and the calls that raise are tallied per instance.              *)

\* no call yet
NoTally == [reads |-> 0, sets |-> 0, stores |-> 0, deletes |-> 0, broken |-> 0]

\* the tally with an entry for every instance of the heap h
Padded(h) == [i \in 1..Len(h) |-> IF i <= Len(tally) THEN tally[i] ELSE NoTally]

\* the tally after the call whose outcome is o, made with the backend
\* argument bk: each field of counted goes up by one when the call completed,
\* each field of uncounted when it raised after its backend was resolved
Tallied(o, bk, counted, uncounted) ==
    LET r == GetBackendInstance(mgr, heap, bk)
    IN IF r.raised # None THEN Padded(o.heap)
       ELSE [Padded(o.heap) EXCEPT ![r.ret] =
               [field \in DOMAIN NoTally |->
                  @[field] + (IF field \in (IF o.raised = None THEN counted ELSE uncounted)
                              THEN 1 ELSE 0)]]

\* cache.get(key) on the backend that bk resolves to returns None
Misses(key, bk) ==
    LET r == GetBackendInstance(mgr, heap, bk)
    IN r.raised = None /\ BackendGet(r.heap[r.ret], key, now).ret = PyNone

\* the backend arguments: none (the default backend), an object that is no
\* backend, and the instances made so far
AcctArgs == {NoBackend, NotABackend} \cup {Instance(i) : i \in 1..Len(heap)}

InitAcct ==
    /\ IdleBackend
    /\ watch = "account"
    /\ mgr = NewManager(0) /\ heap = <<NewDisk(8, ForeignFile), NewMemory(1)>>
    /\ mlast = None /\ served = {} /\ mraised = None
    /\ nsA = <<"a">> /\ nsB = <<"b">> /\ keyIn = <<>> /\ keyOut = <<>>
    /\ IdleOps
    /\ IdleCodec
    /\ IdleRace
    /\ IdleSnap /\ IdleLru /\ IdleDisk /\ IdleConn /\ IdleSlots
    /\ tally = <<NoTally, NoTally>>

\* a step of the manager with its tally leaves everything else alone
AcctOnly ==
    /\ UNCHANGED backendVars /\ UNCHANGED keyVars /\ UNCHANGED opsVars
    /\ UNCHANGED codecVars /\ UNCHANGED raceVars /\ UNCHANGED snapVars
    /\ UNCHANGED lruVars /\ UNCHANGED diskVars /\ UNCHANGED connVars
    /\ UNCHANGED slotVars

AcctGetBackend(backend_type, kwargs) ==
    /\ ManagerGetBackend(backend_type, kwargs)
    /\ tally' = Padded(GetBackend(mgr, heap, backend_type, kwargs).heap)

AcctGet(key, bk) ==
    /\ ManagerGet(key, bk)
    /\ tally' = Tallied(ManagerGetOf(mgr, heap, key, bk, now), bk, {"reads"}, {})

AcctSet(key, value, ttl, bk) ==
    /\ ManagerSet(key, value, ttl, bk)
    /\ tally' = Tallied(ManagerSetOf(mgr, heap, key, value, ttl, bk, now), bk, {"sets"}, {})

AcctDelete(key, bk) ==
    /\ ManagerDelete(key, bk)
    /\ tally' = Tallied(ManagerDeleteOf(mgr, heap, key, bk), bk, {"deletes"}, {})

AcctClear(bk) ==
    /\ ManagerClear(bk)
    /\ tally' = Tallied(ManagerClearOf(mgr, heap, bk), bk, {}, {})

AcctExists(key, bk) ==
    /\ ManagerExists(key, bk)
    /\ tally' = Tallied(ManagerExistsOf(mgr, heap, key, bk, now), bk, {}, {})

AcctGetOrSet(key, f, ttl, bk) ==
    /\ ManagerGetOrSet(key, f, ttl, bk)
    /\ tally' = Tallied(ManagerGetOrSetOf(mgr, heap, key, f, ttl, bk, now), bk,
                        IF Misses(key, bk) THEN {"reads", "stores"} ELSE {"reads"},
                        IF Misses(key, bk) THEN {"broken"} ELSE {})

NextAcct ==
    \/ \E call \in GetBackendCalls : AcctGetBackend(call[1], call[2]) /\ AcctOnly
    \/ \E key \in MgrKeys : \E bk \in AcctArgs : AcctGet(key, bk) /\ AcctOnly
    \/ \E key \in MgrKeys : \E value \in ErrValues : \E ttl \in MgrTTLs :
         \E bk \in AcctArgs : AcctSet(key, value, ttl, bk) /\ AcctOnly
    \/ \E key \in MgrKeys : \E bk \in AcctArgs : AcctDelete(key, bk) /\ AcctOnly
    \/ \E bk \in AcctArgs : AcctClear(bk) /\ AcctOnly
    \/ \E key \in MgrKeys : \E bk \in AcctArgs : AcctExists(key, bk) /\ AcctOnly
    \/ \E key \in MgrKeys : \E f \in ErrValues : \E ttl \in MgrTTLs :
         \E bk \in AcctArgs : AcctGetOrSet(key, f, ttl, bk) /\ AcctOnly

\* the manager specification, recording the calls per instance
SpecAcct == InitAcct /\ [][NextAcct]_vars

(* --------------------- the snapshot specification --------------------- *)
(* A manager and one caller that keeps the dict its last get_metrics call   *)
(* returned and may write into it.                                          *)

\* the backend arguments of the counted methods: the default MemoryCache
\* and the NullCache
SnapArgs == {NoBackend, TypeName("null")}

\* the entries the caller writes into a snapshot: snapshot[key][name] = n
SnapWrites == {<<"hits", "memory", 9>>, <<"sets", "null", 0>>}

InitSnap ==
    /\ IdleBackend
    /\ watch = "snapshot"
    /\ IdleManager
    /\ IdleKeys
    /\ IdleOps
    /\ IdleCodec
    /\ IdleRace
    /\ IdleRest

\* get_metrics, its result kept by the caller
TakeSnapshot ==
    /\ snap' = Some(MetricsCopy(mgr))
    /\ snapWas' = Some(mgr.metrics)
    /\ mlast' = Some(GetMetrics(mgr, now))
    /\ UNCHANGED <<mgr, heap, served, mraised>>

\* the caller writes into the snapshot it holds
ModifySnapshot(key, name, n) ==
    /\ snap # None
    /\ LET o == SnapshotStore(mgr, snap[1], key, name, n)
       IN /\ mgr' = o.mgr
          /\ snap' = Some(o.snap)
    /\ snapWas' = Some([snapWas[1] EXCEPT ![key] = DictPut(@, name, n)])
    /\ mlast' = None
    /\ UNCHANGED <<heap, served, mraised>>

\* a step of the caller leaves everything but the manager and the snapshot
SnapOnly ==
    /\ UNCHANGED backendVars /\ UNCHANGED keyVars /\ UNCHANGED opsVars
    /\ UNCHANGED codecVars /\ UNCHANGED raceVars /\ UNCHANGED lruVars
    /\ UNCHANGED diskVars /\ UNCHANGED connVars /\ UNCHANGED acctVars
    /\ UNCHANGED slotVars

NextSnap ==
    \/ \E key \in MgrKeys : \E bk \in SnapArgs : ManagerGet(key, bk) /\ ManagerOnly
    \/ \E key \in MgrKeys : \E value \in MgrValues : \E ttl \in MgrTTLs :
         \E bk \in SnapArgs : ManagerSet(key, value, ttl, bk) /\ ManagerOnly
    \/ \E key \in MgrKeys : \E bk \in SnapArgs : ManagerDelete(key, bk) /\ ManagerOnly
    \/ \E key \in MgrKeys : \E f \in MgrFactories : \E ttl \in MgrTTLs :
         \E bk \in SnapArgs : ManagerGetOrSet(key, f, ttl, bk) /\ ManagerOnly
    \/ TakeSnapshot /\ SnapOnly
    \/ \E w \in SnapWrites : ModifySnapshot(w[1], w[2], w[3]) /\ SnapOnly

\* the manager specification with a caller that keeps a snapshot
SpecSnap == InitSnap /\ [][NextSnap]_vars

(* ----------------------- the key specification ------------------------ *)
(* _get_key applied by two SpecializedCache objects.                        *)

Namespaces == {<<"a">>, <<"b">>, <<"a", ":", "b">>, <<"a", "b">>}

\* the parts handed to _get_key: "c", "b:c", "bc", and the two parts "b", "c"
PartLists == {<< <<"c">> >>, << <<"b", ":", "c">> >>, << <<"b", "c">> >>,
              << <<"b">>, <<"c">> >>}

InitKey ==
    /\ IdleBackend
    /\ watch = "keys"
    /\ IdleManager
    /\ nsA \in Namespaces /\ nsB \in Namespaces
    /\ keyIn \in PartLists \X PartLists
    /\ keyOut = <<>>
    /\ IdleOps
    /\ IdleCodec
    /\ IdleRace
    /\ IdleRest

\* each cache builds the backend key of its parts
ApplyGetKey ==
    /\ keyOut = <<>>
    /\ keyOut' = <<GetKey(nsA, keyIn[1]), GetKey(nsB, keyIn[2])>>
    /\ UNCHANGED <<nsA, nsB, keyIn>>

NextKey ==
    /\ ApplyGetKey
    /\ UNCHANGED backendVars /\ UNCHANGED managerVars /\ UNCHANGED opsVars
    /\ UNCHANGED codecVars /\ UNCHANGED raceVars
    /\ UNCHANGED restVars

\* the key specification
SpecKey == InitKey /\ [][NextKey]_vars

(* ---------------------- the codec specification ---------------------- *)
(* DiskCache._serialize applied to a value, and DiskCache._deserialize      *)
(* applied to the data it returned.                                         *)

\* the largest element, and the largest magnitude of an int, in the values
MaxPayload == 3

\* the values: ints, strings, the containers [n], (n,), {"a": n}, {n: n} and
\* {n}, None, the bools, and the two functions
CodecValues ==
    {PyInt(n) : n \in -MaxPayload..MaxPayload}
    \cup {<<tag, n>> : tag \in {"str", "list", "tuple", "dict_str", "dict_int", "set"},
                       n \in 0..MaxPayload}
    \cup {PyNone, PyTrue, PyFalse, PyLambda, PyLocalFunction}

InitCodec ==
    /\ IdleBackend
    /\ watch = "codec"
    /\ IdleManager
    /\ IdleKeys
    /\ IdleOps
    /\ codecIn \in CodecValues /\ codecData = None /\ codecOut = None
    /\ IdleRace
    /\ IdleRest

\* data, _ = self._serialize(value)
ApplySerialize ==
    /\ codecData = None
    /\ codecData' = IF SerializeRaises(codecIn) # None
                    THEN Some(Raise(SerializeRaises(codecIn)[1]))
                    ELSE Some(Serialize(codecIn))
    /\ UNCHANGED <<codecIn, codecOut>>

\* self._deserialize(data)
ApplyDeserialize ==
    /\ codecData # None /\ codecData[1][1] # "raise"
    /\ codecOut = None
    /\ codecOut' = Some(Deserialize(codecData[1]))
    /\ UNCHANGED <<codecIn, codecData>>

CodecOnly ==
    /\ UNCHANGED backendVars /\ UNCHANGED managerVars /\ UNCHANGED keyVars
    /\ UNCHANGED opsVars /\ UNCHANGED raceVars
    /\ UNCHANGED restVars

NextCodec ==
    \/ ApplySerialize /\ CodecOnly
    \/ ApplyDeserialize /\ CodecOnly

\* the codec specification
SpecCodec == InitCodec /\ [][NextCodec]_vars

(* ----------------------- the race specification ---------------------- *)
(* Two callers (threads) inside CacheManager.get_or_set with the same key   *)
(* and the default backend. A caller stands at "start", then "resolved"     *)
(* (cache and namespace are bound), then after cache.get at "missed" or     *)
(* "hit"; on a miss it goes on to "counted" (misses incremented),           *)
(* "computed" (the factory returned), "written" (cache.set returned) and    *)
(* "done"; on a hit to "done". The manager takes no lock, so the steps of   *)
(* the callers interleave; a call of the backend is one step, and an        *)
(* increment of a counter is two, its load and its store.                   *)

Callers == {1, 2}

\* the factory of caller c returns c
Factory(c) == PyInt(c)

\* the backends the two callers name: the default backend, a MemoryCache
\* that takes one entry, a MemoryCache that takes none, a NullCache
RaceBackends == {NoBackend, Instance(1), Instance(2), TypeName("null")}

InitRace ==
    /\ IdleBackend
    /\ watch = "race"
    /\ mgr = NewManager(0) /\ heap = <<NewMemory(1), NewMemory(0)>> /\ mlast = None
    /\ served = {} /\ mraised = None
    /\ IdleKeys
    /\ IdleOps
    /\ IdleCodec
    /\ IdleRest
    /\ pc = [c \in Callers |-> "start"]
    /\ \E bk \in RaceBackends :
         frame = [c \in Callers |-> [backend |-> bk, cache |-> 0, value |-> PyNone,
                                     read |-> 0, missed |-> FALSE]]
    /\ writers = <<>>

\* cache = self._get_backend_instance(backend); namespace = ...
RaceResolve(c) ==
    LET o == GetBackendInstance(mgr, heap, frame[c].backend)
    IN /\ pc[c] = "start"
       /\ mgr' = o.mgr /\ heap' = o.heap
       /\ frame' = [frame EXCEPT ![c].cache = o.ret]
       /\ pc' = [pc EXCEPT ![c] = "resolved"]
       /\ UNCHANGED <<writers, mlast, served, mraised>>

\* value = cache.get(key)
RaceGet(c) ==
    LET got == BackendGet(heap[frame[c].cache], KeyK, now)
    IN /\ pc[c] = "resolved"
       /\ heap' = [heap EXCEPT ![frame[c].cache] = got.b]
       /\ frame' = [frame EXCEPT ![c].value = got.ret, ![c].missed = (got.ret = PyNone)]
       /\ pc' = [pc EXCEPT ![c] = IF got.ret = PyNone THEN "missed" ELSE "hit"]
       /\ UNCHANGED <<mgr, writers, mlast, served, mraised>>

\* the counter a caller increments where it stands
RaceMetric(at) ==
    CASE at \in {"missed", "missed_load"} -> "misses"
      [] at \in {"hit", "hit_load"} -> "hits"
      [] at \in {"written", "written_load"} -> "sets"

\* the load of self._metrics[metric_type][namespace] += 1
RaceLoad(c) ==
    /\ pc[c] \in {"missed", "hit", "written"}
    /\ frame' = [frame EXCEPT ![c].read =
                    DictGet(mgr.metrics[RaceMetric(pc[c])],
                            GetBackendName(heap[frame[c].cache]), 0)]
    /\ pc' = [pc EXCEPT ![c] = CASE pc[c] = "missed" -> "missed_load"
                                  [] pc[c] = "hit" -> "hit_load"
                                  [] pc[c] = "written" -> "written_load"]
    /\ UNCHANGED <<mgr, heap, writers, mlast, served, mraised>>

\* the store of self._metrics[metric_type][namespace] += 1
RaceStore(c) ==
    /\ pc[c] \in {"missed_load", "hit_load", "written_load"}
    /\ mgr' = CounterStore(mgr, RaceMetric(pc[c]), GetBackendName(heap[frame[c].cache]),
                           frame[c].read)
    /\ pc' = [pc EXCEPT ![c] = IF pc[c] = "missed_load" THEN "counted" ELSE "done"]
    /\ UNCHANGED <<heap, frame, writers, mlast, served, mraised>>

\* value = default_factory()
RaceCompute(c) ==
    /\ pc[c] = "counted"
    /\ frame' = [frame EXCEPT ![c].value = Factory(c)]
    /\ pc' = [pc EXCEPT ![c] = "computed"]
    /\ UNCHANGED <<mgr, heap, writers, mlast, served, mraised>>

\* cache.set(key, value, ttl)
RaceSet(c) ==
    /\ pc[c] = "computed"
    /\ heap' = [heap EXCEPT ![frame[c].cache] = BackendSet(@, KeyK, frame[c].value, None, now)]
    /\ writers' = Append(writers, c)
    /\ pc' = [pc EXCEPT ![c] = "written"]
    /\ UNCHANGED <<mgr, frame, mlast, served, mraised>>

RaceOnly ==
    /\ UNCHANGED backendVars /\ UNCHANGED keyVars /\ UNCHANGED opsVars
    /\ UNCHANGED codecVars
    /\ UNCHANGED restVars

NextRace ==
    \/ \E c \in Callers : RaceResolve(c) /\ RaceOnly
    \/ \E c \in Callers : RaceGet(c) /\ RaceOnly
    \/ \E c \in Callers : RaceLoad(c) /\ RaceOnly
    \/ \E c \in Callers : RaceStore(c) /\ RaceOnly
    \/ \E c \in Callers : RaceCompute(c) /\ RaceOnly
    \/ \E c \in Callers : RaceSet(c) /\ RaceOnly

\* the race specification
SpecRace == InitRace /\ [][NextRace]_vars

(* ------------------------ claims on the backends ---------------------- *)

\* the keys of the sets recorded in inserted
InsertedKeys == {inserted[i][1] : i \in 1..Len(inserted)}

\* C1 (MemoryCache LRU bound): when a MemoryCache with max_size = m >= 1 has,
\* starting empty, only seen set (without ttl) on n > m distinct keys, get
\* returns the original value for exactly the last m keys set and the first
\* n - m keys, like every other key, are absent.
C1_LruBound ==
    (/\ backend.kind = "memory" /\ backend.max_size >= 1
     /\ pure /\ Len(inserted) > backend.max_size)
    => /\ \A i \in 1..Len(inserted) :
            LET k == inserted[i][1]
                g == MemGet(backend.cache, k, now)
                e == MemExists(backend.cache, k, now)
            IN IF i > Len(inserted) - backend.max_size
               THEN MemHas(backend.cache, k) /\ e.ret /\ g.ret = inserted[i][2]
               ELSE ~MemHas(backend.cache, k) /\ ~e.ret /\ g.ret = PyNone
       /\ \A k \in Keys \ InsertedKeys : ~MemHas(backend.cache, k)

\* C1 happens: more keys than max_size were set and the last value set is
\* a value other than None.
C1_Witness ==
    /\ backend.kind = "memory" /\ backend.max_size >= 1
    /\ pure /\ Len(inserted) > backend.max_size
    /\ inserted[Len(inserted)][2] # PyNone

\* C2 (MemoryCache TTL expiry): for a key written by set(k, v, ttl) and not
\* overwritten, deleted or evicted since, get returns v and exists returns
\* true at every clock value up to set-time + ttl, and get returns absent and
\* exists false at every later clock value; without a ttl the key never
\* expires.
C2_MemoryTtl ==
    backend.kind = "memory"
    => \A k \in Keys :
         written[k] # None
         => LET w == written[k][1]
                g == MemGet(backend.cache, k, now)
                e == MemExists(backend.cache, k, now)
            IN IF w.until = None \/ now <= w.until[1]
               THEN g.ret = w.value /\ e.ret
               ELSE g.ret = PyNone /\ ~e.ret

\* C2 happens: the ttl of a written value has elapsed and a read has removed
\* the expired entry.
C2_Witness ==
    /\ backend.kind = "memory"
    /\ \E k \in Keys :
         /\ written[k] # None
         /\ written[k][1].value # PyNone
         /\ written[k][1].until # None
         /\ now > written[k][1].until[1]
         /\ ~MemHas(backend.cache, k)

\* a get_or_set that missed was directly followed by a get_or_set on its
\* key, and the ttl of what the first stored has not elapsed
GetOrSetTwice == prior # None /\ (prior[1].until = None \/ now <= prior[1].until[1])

\* C3 as stated (get_or_set single computation, on any backend): a
\* get_or_set that follows a get_or_set miss on the same key returns the first
\* result and does not invoke its factory.
C3_AnyBackend ==
    GetOrSetTwice => last.calls = 0 /\ last.ret = prior[1].ret

\* C3 as amended: on a MemoryCache with max_size >= 1, a get_or_set that
\* misses invokes its factory once, returns its result and stores it; when
\* that result is not None, a get_or_set on the same key that directly follows
\* (before the ttl elapses) returns it and does not invoke its factory.
C3_MemoryGetOrSet ==
    (backend.kind = "memory" /\ backend.max_size >= 1)
    => /\ (last.op = "get_or_set" /\ last.calls = 1)
          => /\ MemHas(backend.cache, last.key)
             /\ MemLookup(backend.cache, last.key).value = last.ret
       /\ (GetOrSetTwice /\ prior[1].ret # PyNone)
          => last.calls = 0 /\ last.ret = prior[1].ret

\* C3 happens: on a MemoryCache, a get_or_set that computed a value with a
\* ttl was followed by a get_or_set on the same key that returned it.
C3_Witness ==
    /\ backend.kind = "memory" /\ backend.max_size >= 1
    /\ GetOrSetTwice
    /\ prior[1].ret # PyNone /\ prior[1].until # None
    /\ last.calls = 0 /\ last.ret = prior[1].ret

\* C7 as stated (DiskCache read-your-write and durability): after set(k, v,
\* ttl) of a value the codec encodes and that fits in max_size, get(k) returns
\* v and exists(k) is true until the ttl elapses, on the instance that wrote
\* and on a new instance on the same namespace.
C7_DiskReadYourWrite ==
    backend.kind = "disk"
    => \A k \in Keys :
         (/\ written[k] # None
          /\ (written[k][1].until = None \/ now <= written[k][1].until[1]))
         => /\ DiskGet(backend.rows, k, now).ret = written[k][1].value
            /\ DiskExists(backend.rows, k, now).ret

\* the rows of a table, as a set
RowSet(view) == {view[i] : i \in 1..Len(view)}

MetricTypes == {"hits", "misses", "sets", "deletes"}

BackendNames == {"memory", "disk", "null"}

\* self._metrics[metric_type].get(name, 0)
Count(m, metric_type, name) == DictGet(m.metrics[metric_type], name, 0)

\* between m1 and m2 the counters in counted went up by one and no other
\* counter changed
OnlyCounted(m1, m2, counted) ==
    \A metric_type \in MetricTypes : \A name \in BackendNames :
        Count(m2, metric_type, name)
        = Count(m1, metric_type, name)
          + (IF <<metric_type, name>> \in counted THEN 1 ELSE 0)

\* C4 as stated (metrics consistency): in a get_metrics snapshot, every
\* backend name with recorded gets has a hit rate, and it equals
\* hits / (hits + misses).
C4_HitRates ==
    mlast # None
    => LET snapshot == mlast[1]
       IN \A name \in DOMAIN snapshot.hits \cup DOMAIN snapshot.misses :
            LET hits == DictGet(snapshot.hits, name, 0)
                misses == DictGet(snapshot.misses, name, 0)
            IN /\ name \in DOMAIN snapshot.hit_rates
               /\ snapshot.hit_rates[name].num * (hits + misses)
                  = hits * snapshot.hit_rates[name].den

\* the keys the manager's methods are called with, directly or through a
\* specialized cache
CalledKeys == MgrKeys \cup {GetKey(Namespace(c), <<key>>) : c \in Caches, key \in RawKeys}

\* C5 (manager counter updates): a CacheManager.get that completes adds one
\* to hits[name] when the backend returned a value and to misses[name] when
\* it returned None, name being the resolved backend's name, and changes no
\* other counter; a completed set adds one to sets[name] only, a completed
\* delete one to deletes[name] only; a completed get_or_set adds one to
\* hits[name] only on a hit, and one to each of misses[name] and sets[name]
\* on a miss.
C5_CounterUpdates ==
    \A key \in CalledKeys : \A bk \in BackendArgs :
        LET r == GetBackendInstance(mgr, heap, bk)
            cache == r.heap[r.ret]
            name == GetBackendName(cache)
            hit == BackendGet(cache, key, now).ret # PyNone
            got == ManagerGetOf(mgr, heap, key, bk, now)
            deleted == ManagerDeleteOf(mgr, heap, key, bk)
        IN r.raised = None
           => /\ got.raised = None
              /\ OnlyCounted(mgr, got.mgr, {<<IF hit THEN "hits" ELSE "misses", name>>})
              /\ deleted.raised = None
              /\ OnlyCounted(mgr, deleted.mgr, {<<"deletes", name>>})
              /\ \A value \in MgrValues : \A ttl \in MgrTTLs :
                    LET stored == ManagerSetOf(mgr, heap, key, value, ttl, bk, now)
                    IN stored.raised = None
                       => OnlyCounted(mgr, stored.mgr, {<<"sets", name>>})
              /\ \A f \in MgrFactories : \A ttl \in MgrTTLs :
                    LET o == ManagerGetOrSetOf(mgr, heap, key, f, ttl, bk, now)
                    IN o.raised = None
                       => OnlyCounted(mgr, o.mgr,
                                      IF hit THEN {<<"hits", name>>}
                                      ELSE {<<"misses", name>>, <<"sets", name>>})

\* C5 happens: a hit and a set were counted for "memory" and a miss for
\* "null".
C5_Witness ==
    /\ Count(mgr, "hits", "memory") >= 1
    /\ Count(mgr, "sets", "memory") >= 1
    /\ Count(mgr, "misses", "null") >= 1

\* C6 as stated (backend memoization): two get_backend calls return the same
\* instance exactly when their backend type and constructor arguments are
\* the same.
C6_Memoization ==
    \A x \in served : \A y \in served :
        (x[1] = y[1] /\ x[2] = y[2]) <=> (x[3] = y[3])

\* what get and exists of a caller key return through cache c on backend b
Through(c, key, b) ==
    <<BackendGet(b, GetKey(Namespace(c), <<key>>), now).ret,
      BackendExists(b, GetKey(Namespace(c), <<key>>), now).ret>>

OtherCache(c) == IF c = "A" THEN "B" ELSE "A"

\* a set, delete or get_or_set of key through cache c, with any backend
\* argument that meets the condition, leaves what the other cache's get and
\* exists of the same key return on every backend
Isolated(condition(_, _)) ==
    \A c \in Caches : \A key \in RawKeys : \A bk \in BackendArgs :
        LET full == GetKey(Namespace(c), <<key>>)
            r == GetBackendInstance(mgr, heap, bk)
            same(h) == \A i \in 1..Len(heap) :
                          Through(OtherCache(c), key, h[i])
                          = Through(OtherCache(c), key, heap[i])
        IN (/\ Namespace(c) # Namespace(OtherCache(c))
            /\ r.raised = None
            /\ condition(r.heap[r.ret], full))
           => /\ same(ManagerDeleteOf(mgr, heap, full, bk).heap)
              /\ \A value \in MgrValues : \A ttl \in MgrTTLs :
                    same(ManagerSetOf(mgr, heap, full, value, ttl, bk, now).heap)
              /\ \A f \in MgrFactories : \A ttl \in MgrTTLs :
                    same(ManagerGetOrSetOf(mgr, heap, full, f, ttl, bk, now).heap)

Always(b, k) == TRUE

\* a write of key k makes backend b evict nothing
NoEviction(b, k) ==
    b.kind = "null" \/ (b.kind = "memory" /\ (MemHas(b.cache, k) \/ Len(b.cache) < b.max_size))

\* C9 as stated (namespacing isolation): for two specialized caches with
\* different namespaces on one manager and one backend, a set, delete or
\* get_or_set of a key through one never changes what get or exists of the
\* same key returns through the other.
C9_Isolation == Isolated(Always)

\* C9 as amended: the same, for a MemoryCache or NullCache backend and
\* provided the write evicts nothing, that is, the MemoryCache already holds
\* the written key or holds fewer than max_size entries.
C9_IsolationBelowCapacity == Isolated(NoEviction)

\* C9 happens: one MemoryCache holds the same caller key for both caches.
C9_Witness ==
    /\ nsA # nsB
    /\ \E i \in 1..Len(heap) : \E key \in RawKeys :
         /\ heap[i].kind = "memory"
         /\ MemHas(heap[i].cache, GetKey(nsA, <<key>>))
         /\ MemHas(heap[i].cache, GetKey(nsB, <<key>>))

(* ------------------------- claims on the keys ------------------------- *)

\* the string holds a ":"
HasColon(str) == \E i \in 1..Len(str) : str[i] = ":"

\* the backend key is the namespace, a ":" and the caller key
KeyOf(out, namespace, parts) ==
    /\ Len(out) = Len(namespace) + 1 + Len(JoinParts(parts))
    /\ SubSeq(out, 1, Len(namespace)) = namespace
    /\ out[Len(namespace) + 1] = ":"
    /\ SubSeq(out, Len(namespace) + 2, Len(out)) = JoinParts(parts)

\* C10 as stated (namespace key construction is collision-free): the
\* backend key is namespace + ":" + caller key, and two caches with different
\* namespaces produce different backend keys whatever the caller keys.
C10_KeysNeverCollide ==
    keyOut # <<>>
    => /\ KeyOf(keyOut[1], nsA, keyIn[1])
       /\ KeyOf(keyOut[2], nsB, keyIn[2])
       /\ nsA # nsB => keyOut[1] # keyOut[2]

\* C10 as amended: the backend key is namespace + ":" + caller key, and for
\* namespaces that hold no ":" the map from (namespace, caller key) to the
\* backend key is injective: different namespaces never produce the same key.
C10_KeysOfPlainNamespaces ==
    keyOut # <<>>
    => /\ KeyOf(keyOut[1], nsA, keyIn[1])
       /\ KeyOf(keyOut[2], nsB, keyIn[2])
       /\ (~HasColon(nsA) /\ ~HasColon(nsB) /\ keyOut[1] = keyOut[2])
          => (nsA = nsB /\ JoinParts(keyIn[1]) = JoinParts(keyIn[2]))

\* C10 happens: two caches with different colon-free namespaces built their
\* keys, one of them from a caller key with a ":".
C10_Witness ==
    /\ keyOut # <<>>
    /\ ~HasColon(nsA) /\ ~HasColon(nsB) /\ nsA # nsB
    /\ HasColon(JoinParts(keyIn[1]))

(* ------------------------ claims on the DiskCache --------------------- *)

\* C16 as stated (disk write failure is recovered): DiskCache.set(k, v) with
\* a value that neither JSON nor pickle can encode raises nothing, and
\* afterwards the cache does not contain k, whether the database file held
\* no row of k or a row of k with the value 7.
C16_DiskWriteFailure ==
    backend.kind = "disk" =>
        \A k \in Keys : \A v \in ValuesOf("disk") : \A ttl \in TTLs :
            (~IsJsonSerializable(v) /\ ~IsPicklable(v)) =>
                /\ SetRaises(backend, v) = None
                /\ \A file \in {backend.rows, <<Row(k, Serialize(PyInt(7)), None, now)>>} :
                      LET after == DiskSet(file, backend.max_size, k, v, ttl, now)
                      IN /\ ~DiskExists(after, k, now).ret
                         /\ DiskGet(after, k, now).ret = PyNone

\* C18 as stated (serialization round-trip): for every value the JSON
\* encoder accepts and for every value only pickle accepts,
\* _deserialize(_serialize(v)) is equal to v.
C18_RoundTrip ==
    codecOut # None => codecOut[1] = codecIn

\* expires_at is set and in the past
RowExpired(r, t) == r.expires_at # None /\ r.expires_at[1] < t

\* C26 (disk size enforcement steps): the pass run by DiskCache.set leaves
\* the table as it is when the total size, expired rows included, is <=
\* max_size; otherwise it removes every row whose expires_at is set and in
\* the past and removes no more if the total is then <= max_size; otherwise
\* it also removes rows oldest first by created_at, as few as bring the
\* total to <= max_size: no removed row is younger than a row left, and
\* without the youngest removed row the total would exceed max_size.
C26_EnforcementSteps ==
    passOut # None =>
        LET view == passIn[1]
            out == passOut[1]
            live == SelectSeq(view, LAMBDA r : ~RowExpired(r, now))
            gone == RowSet(live) \ RowSet(out)
        IN /\ SqlSumSize(view) <= backend.max_size => out = view
           /\ SqlSumSize(view) > backend.max_size =>
                /\ out = SelectSeq(live, LAMBDA r : r \notin gone)
                /\ SqlSumSize(live) <= backend.max_size => out = live
                /\ SqlSumSize(live) > backend.max_size =>
                     /\ SqlSumSize(out) <= backend.max_size
                     /\ \A r \in gone : \A s \in RowSet(out) : r.created_at <= s.created_at
                     /\ \E y \in gone :
                          /\ \A r \in gone : r.created_at <= y.created_at
                          /\ SqlSumSize(out) + y.size > backend.max_size

\* a set whose pass met three rows over max_size, removed the expired one
\* and then the oldest of the other two, and left the youngest
C26_Witness ==
    /\ passOut # None
    /\ Len(passIn[1]) = 3 /\ Len(passOut[1]) = 1
    /\ \E i \in 1..3 : RowExpired(passIn[1][i], now)
    /\ \E i \in 1..3 : /\ ~RowExpired(passIn[1][i], now)
                         /\ passIn[1][i].created_at < passOut[1][1].created_at

\* the row of the last operation's key in the file before the operation
RowBefore == SqlSelect(diskOp.before, diskOp.key)

\* C27 (disk expiry on read): a get or an exists that finds a row whose
\* expires_at is in the past returns None / false, and the row is gone from
\* the table afterwards, so that the total size the next connection sees is
\* without it.
C27_DiskExpiryOnRead ==
    (/\ diskOp.op \in {"get", "exists"}
     /\ RowBefore # None
     /\ IsExpired(RowBefore[1].expires_at, now)) =>
        /\ diskOp.ret = IF diskOp.op = "get" THEN PyNone ELSE PyFalse
        /\ SqlSelect(Connect(backend.rows), diskOp.key) = None
        /\ SqlSumSize(Connect(backend.rows)) = SqlSumSize(diskOp.before) - RowBefore[1].size

\* C28 Every DiskCache operation (get, set, delete, clear, exists) acquires
\* exactly one connection and releases it before it returns or raises: no
\* operation holds two connections at the same time, no connection is open
\* between operations, and an operation that has ended acquired one.
C28_ConnectionDiscipline ==
    watch = "conn" =>
        /\ Cardinality(connOpen) <= 1
        /\ connStack = <<>> => connOpen = {}
        /\ diskOp.op # "none" => connCount = 1

\* C29 (disk set is an upsert): no table holds two rows of one key; after
\* a set of a key that had a row, where the row written passed the size
\* enforcement, the key's row is the one written (its value, size,
\* expires_at and created_at), and no row is younger.
C29_DiskUpsert ==
    /\ \A i \in 1..Len(backend.rows) : \A j \in 1..Len(backend.rows) :
         backend.rows[i].key = backend.rows[j].key => i = j
    /\ passOut # None =>
         \A i \in 1..Len(passOut[1]) : \A j \in 1..Len(passOut[1]) :
             passOut[1][i].key = passOut[1][j].key => i = j
    /\ (/\ diskOp.op = "set" /\ passOut # None
        /\ RowBefore # None
        /\ passIn[1][Len(passIn[1])] \in RowSet(passOut[1])) =>
           /\ SqlSelect(Connect(backend.rows), diskOp.key) = Some(passIn[1][Len(passIn[1])])
           /\ \A r \in RowSet(backend.rows) : r.created_at <= now

\* the row the last set wrote
RowWritten == passIn[1][Len(passIn[1])]

\* after a DiskCache.set of a value whose encoded size exceeds max_size, the
\* table holds neither the key nor an older row, and its total size is
\* within max_size
SelfEvicted(table) ==
    (/\ diskOp.op = "set" /\ passIn # None
     /\ RowWritten.size > backend.max_size) =>
        /\ diskOp.ret = PyNone
        /\ SqlSelect(table, diskOp.key) = None
        /\ \A r \in RowSet(table) : r.created_at > RowWritten.created_at
        /\ SqlSumSize(table) <= backend.max_size

\* C36 as stated (a write can evict itself): MemoryCache.set with max_size =
\* 0 returns normally and leaves the cache empty, so the key just written is
\* absent; DiskCache.set of a value whose encoded size exceeds max_size
\* returns normally and leaves the table without that key and without every
\* older row; either way the entry count or total size stays within
\* max_size.
C36_WriteEvictsItself ==
    /\ \A k \in Keys : \A v \in ValuesOf("memory") : \A ttl \in TTLs :
         /\ ~MemSetRaises(0)
         /\ MemSet(<<>>, 0, k, v, ttl, now) = <<>>
         /\ ~MemExists(MemSet(<<>>, 0, k, v, ttl, now), k, now).ret
    /\ SelfEvicted(Connect(backend.rows))

\* C30 (disk read failure is a hard failure): a get that finds an
\* unexpired row whose bytes are neither JSON text nor a pickle raises
\* CacheError, and the row stays in the table.
C30_DiskReadFailure ==
    (/\ diskOp.op = "get"
     /\ RowBefore # None
     /\ ~IsExpired(RowBefore[1].expires_at, now)
     /\ RowBefore[1].value \in {Garbage, CutPickle}) =>
        /\ diskOp.ret = Raise("CacheError")
        /\ SqlSelect(Connect(backend.rows), diskOp.key) = RowBefore

(* ----------------------- claims on the MemoryCache -------------------- *)

\* C12 (MemoryCache read-your-write): on a MemoryCache with max_size >= 1,
\* immediately after set(k, v, ttl) of a value other than None get(k) returns
\* v and exists(k) is true; after delete(k) and after clear() get(k) returns
\* None and exists(k) is false; delete of a key the cache does not hold
\* leaves the entries and their recency order as they are.
C12_MemoryReadYourWrite ==
    (backend.kind = "memory" /\ backend.max_size >= 1) =>
        \A k \in Keys :
            /\ \A v \in ValuesOf("memory") \ {PyNone} : \A ttl \in TTLs :
                   LET c == MemSet(backend.cache, backend.max_size, k, v, ttl, now)
                   IN MemGet(c, k, now).ret = v /\ MemExists(c, k, now).ret
            /\ LET c == MemDelete(backend.cache, k)
               IN /\ MemGet(c, k, now).ret = PyNone /\ ~MemExists(c, k, now).ret
                  /\ ~MemHas(backend.cache, k) => c = backend.cache
            /\ LET c == MemClear(backend.cache)
               IN MemGet(c, k, now).ret = PyNone /\ ~MemExists(c, k, now).ret

\* a full MemoryCache of two entries, one of them holding the 7 of a set not
\* yet overwritten, and a key it does not hold
C12_Witness ==
    /\ backend.kind = "memory" /\ backend.max_size = 2 /\ Len(backend.cache) = 2
    /\ \E k \in Keys : /\ written[k] # None /\ written[k][1].value = PyInt(7)
                       /\ MemHas(backend.cache, k)
    /\ \E k \in Keys : ~MemHas(backend.cache, k)

\* C23 (MemoryCache overwrite uses one slot): set on a key that a
\* MemoryCache holding exactly max_size entries already holds evicts no
\* entry and leaves the entry count as it is; the other entries keep their
\* values, expiries and order, and the key's entry, with the new value and
\* the new expiry, is the most recently used.
C23_OverwriteUsesOneSlot ==
    (backend.kind = "memory" /\ Len(backend.cache) = backend.max_size) =>
        \A k \in Keys : MemHas(backend.cache, k) =>
            \A v \in ValuesOf("memory") : \A ttl \in TTLs :
                LET c == MemSet(backend.cache, backend.max_size, k, v, ttl, now)
                IN /\ Len(c) = Len(backend.cache)
                   /\ \A j \in Keys : MemHas(c, j) <=> MemHas(backend.cache, j)
                   /\ MemDelete(c, k) = MemDelete(backend.cache, k)
                   /\ c[Len(c)] = MemEntry(k, v, ExpiresAt(ttl, now))

\* the last operation was a set of a key that the cache, of two entries and
\* full, already held: it still holds two entries, the key's last
C23_Witness ==
    /\ trail.op = "set" /\ trail.full
    /\ backend.max_size = 2 /\ Len(backend.cache) = 2
    /\ backend.cache[2].key = trail.key
    /\ backend.cache[2].expires_at # None

\* the entry of KeptKey is the one its last get read, and get returns its
\* value unless the ttl has run out
KeptHeld ==
    /\ MemHas(backend.cache, KeptKey)
    /\ MemLookup(backend.cache, KeptKey).value = kept[1].value
    /\ MemLive(backend.cache, KeptKey, now) =>
         MemGet(backend.cache, KeptKey, now).ret = kept[1].value

\* a get that returns a value leaves the key most recently used, the other
\* entries in their order; the set of a new key that follows on a full cache
\* of max_size >= 2 evicts the least recently used entry, which is another
\* key's, and the key read is still held and read
GetPromotes ==
    \A k \in Keys :
        LET g == MemGet(backend.cache, k, now)
        IN g.ret # PyNone =>
            /\ g.cache = Append(MemDelete(backend.cache, k), MemLookup(backend.cache, k))
            /\ (Len(g.cache) = backend.max_size /\ backend.max_size >= 2) =>
                 \A j \in Keys : ~MemHas(g.cache, j) =>
                     \A v \in ValuesOf("memory") : \A ttl \in TTLs :
                         LET c == MemSet(g.cache, backend.max_size, j, v, ttl, now)
                         IN /\ c = Append(Tail(g.cache), MemEntry(j, v, ExpiresAt(ttl, now)))
                            /\ Head(g.cache).key # k
                            /\ MemGet(c, k, now).ret = g.ret

\* C24 as stated (MemoryCache get promotes recency): ... and the key read
\* stays retrievable until max_size further distinct new keys have been
\* set without the key being accessed.
C24_GetPromotes ==
    /\ GetPromotes
    /\ (kept # None /\ Cardinality(kept[1].news) < backend.max_size) => KeptHeld

\* C24 (MemoryCache get promotes recency): after get(k) returns a value, k
\* is the most recently used entry, so the next set of a new key on a full
\* cache of max_size >= 2 evicts the least recently used other key and not
\* k; and k stays held, and retrievable while its ttl has not run out, as
\* long as fewer than max_size distinct new keys have been set since and
\* meanwhile k was not set, deleted or tested, the cache was not cleared,
\* and no other key the cache held was read by get or overwritten by set.
C24_GetPromotesUntouched ==
    /\ GetPromotes
    /\ (kept # None /\ ~kept[1].touched /\ Cardinality(kept[1].news) < backend.max_size)
          => KeptHeld

\* a get of KeptKey returned a value, then one new key was set into the
\* full cache of two entries: KeptKey is held, now least recently used
C24_Witness ==
    /\ kept # None /\ ~kept[1].touched /\ Cardinality(kept[1].news) = 1
    /\ backend.max_size = 2 /\ Len(backend.cache) = 2
    /\ backend.cache[1].key = KeptKey
    /\ backend.cache[2].key \in kept[1].news

\* C25 (MemoryCache exists does not promote recency): exists(k) on a key
\* that is held and whose ttl has not run out returns true and leaves the
\* entries, their values, expiries and order as they are, so the entry
\* evicted next is the same; on a key whose ttl has run out it returns
\* false and removes that entry and no other; on a key not held it returns
\* false and changes nothing.
C25_ExistsKeepsRecency ==
    /\ \A k \in Keys :
         LET r == MemExists(backend.cache, k, now)
         IN /\ MemLive(backend.cache, k, now) => r.ret /\ r.cache = backend.cache
            /\ (MemHas(backend.cache, k) /\ ~MemLive(backend.cache, k, now)) =>
                 /\ ~r.ret /\ ~MemHas(r.cache, k)
                 /\ Len(r.cache) = Len(backend.cache) - 1
                 /\ r.cache = SelectSeq(backend.cache, LAMBDA e : e.key # k)
            /\ ~MemHas(backend.cache, k) => ~r.ret /\ r.cache = backend.cache
    /\ trail.op = "exists" => (MemHas(backend.cache, trail.key) <=> trail.ret = PyTrue)

\* the last operation was an exists that returned true for the least
\* recently used entry of a full cache of two entries
C25_Witness ==
    /\ trail.op = "exists" /\ trail.ret = PyTrue /\ trail.full
    /\ backend.max_size = 2 /\ Len(backend.cache) = 2
    /\ backend.cache[1].key = trail.key

\* C35 (expired entries occupy slots): an entry whose ttl has run out and
\* that no get or exists has touched counts toward max_size: a set of a new
\* key on a cache of max_size >= 1 that holds max_size entries, expired ones
\* included, evicts the least recently used entry whether or not it has
\* expired and keeps every other entry, expired ones included; after a set
\* that put a key out, the cache holds max_size entries.
C35_ExpiredEntriesOccupySlots ==
    watch = "slots" =>
        /\ \A k \in Keys : \A v \in ValuesOf("memory") : \A ttl \in TTLs :
             (/\ ~MemHas(backend.cache, k)
              /\ backend.max_size >= 1
              /\ Len(backend.cache) = backend.max_size)
             => MemSet(backend.cache, backend.max_size, k, v, ttl, now)
                = Append(Tail(backend.cache), MemEntry(k, v, ExpiresAt(ttl, now)))
        /\ ousted # None =>
             /\ Len(backend.cache) = backend.max_size
             /\ Cardinality(ousted[1].gone) = 1
             /\ ousted[1].stale \subseteq KeysOf(backend.cache)

\* the last operation was a set on a cache of two entries that put out an
\* entry that had not expired while an expired entry is still stored
C35_Witness ==
    /\ watch = "slots"
    /\ backend.max_size = 2
    /\ ousted # None
    /\ ousted[1].live # {}
    /\ ousted[1].stale # {}

(* ------------------- claims on the derived operations ----------------- *)

\* the value a get of key k would return now: PyNone when the key is absent,
\* expired or holds None
Held(b, k) == BackendGet(b, k, now).ret

\* incr(k, delta) from the backend's state does what is said of a key that
\* counts as absent when absent(k) and as an integer when integer(k)
IncrAsStated(absent(_), integer(_), stores) ==
    \A k \in OpKeys : \A delta \in Deltas :
        LET r == BaseIncr(backend, k, delta, now)
            v == Held(backend, k)
            expected == PyInt((IF absent(k) THEN 0 ELSE v[2]) + delta)
        IN /\ absent(k) \/ integer(k) =>
                /\ r.raised = None
                /\ r.ret = expected
                /\ stores => Held(r.b, k) = expected
           /\ ~absent(k) /\ ~integer(k) =>
                /\ r.raised = Some("ValueError")
                /\ Held(r.b, k) = v /\ BackendExists(r.b, k, now).ret
           /\ BaseDecr(backend, k, delta, now) = BaseIncr(backend, k, -delta, now)

\* C11 as stated (incr and decr): on every backend, incr(k, d) on a key that
\* is absent or expired stores and returns 0 + d, on a key holding the
\* integer n stores and returns n + d, on a key holding anything else raises
\* ValueError and leaves the stored value unchanged; decr(k, d) is incr(k, -d).
C11_IncrDecr ==
    IncrAsStated(LAMBDA k : ~BackendExists(backend, k, now).ret,
                 LAMBDA k : Held(backend, k)[1] = "int", TRUE)

\* C11 (incr and decr): incr(k, d) returns 0 + d on a key that is absent,
\* expired or holds None, and n + d on a key holding the int or bool n; on a
\* key holding anything else it raises ValueError and leaves the stored value
\* unchanged; a MemoryCache of max_size >= 1 holds the returned value
\* afterwards; decr(k, d) is incr(k, -d).
C11_IncrDecrOfGet ==
    IncrAsStated(LAMBDA k : Held(backend, k) = PyNone,
                 LAMBDA k : IsInstanceInt(Held(backend, k)),
                 backend.kind = "memory" /\ backend.max_size >= 1)

\* a decr took a counter of a MemoryCache from 1 to 0, and the cache holds a
\* string under the other key
C11_Witness ==
    /\ backend.kind = "memory" /\ Len(backend.cache) = 2
    /\ did.op = "decr" /\ did.ret = PyInt(0)
    /\ backend.cache[2].value = PyInt(0)
    /\ backend.cache[1].value = PyStr

\* C13 (NullCache stores nothing): whatever was called on a NullCache, it
\* holds nothing: get returns None and exists false for every key, get_many
\* returns the empty mapping; and set, set_many, incr, decr, get_or_set,
\* delete, delete_many and clear raise nothing and leave it so.
C13_NullStoresNothing ==
    backend.kind = "null" =>
        /\ backend = NewNull
        /\ \A k \in OpKeys :
              /\ BackendGet(backend, k, now) = [b |-> NewNull, ret |-> PyNone]
              /\ BackendExists(backend, k, now) = [b |-> NewNull, ret |-> FALSE]
              /\ BackendDelete(backend, k) = NewNull
              /\ \A v \in OpValues : \A ttl \in TTLs :
                    /\ SetRaises(backend, v) = None
                    /\ BackendSet(backend, k, v, ttl, now) = NewNull
                    /\ BaseGetOrSet(backend, k, v, ttl, now) =
                         [b |-> NewNull, ret |-> v, calls |-> 1]
              /\ \A delta \in Deltas :
                    BaseIncr(backend, k, delta, now) =
                      [b |-> NewNull, ret |-> PyInt(delta), raised |-> None]
        /\ \A keys \in KeyLists :
              /\ BaseGetMany(backend, keys, now) = [b |-> NewNull, ret |-> EmptyDict]
              /\ BaseDeleteMany(backend, keys) = NewNull
        /\ \A mapping \in Mappings : \A ttl \in TTLs :
              BaseSetMany(backend, mapping, ttl, now) = [b |-> NewNull, raised |-> None]
        /\ BackendClear(backend) = NewNull

\* every writing operation was called on the NullCache, the last one an
\* incr by one that returned 1
C13_Witness ==
    /\ backend.kind = "null"
    /\ {"set", "set_many", "incr", "get_or_set", "delete", "clear"} \subseteq done
    /\ did.op = "incr" /\ did.ret = PyInt(1)

\* the keys of a key list
Listed(keys) == {keys[i] : i \in 1..Len(keys)}

\* set_many and delete_many from the backend's state do what is said of them
BatchWrites ==
    /\ \A mapping \in Mappings : \A ttl \in TTLs :
          LET r == BaseSetMany(backend, mapping, ttl, now)
              first == BackendSet(backend, mapping[1][1], mapping[1][2], ttl, now)
          IN /\ r.raised = None
             /\ Len(mapping) = 0 => r.b = backend
             /\ Len(mapping) = 1 => r.b = first
             /\ Len(mapping) = 2 =>
                  r.b = BackendSet(first, mapping[2][1], mapping[2][2], ttl, now)
    /\ \A keys \in KeyLists :
          LET c == BaseDeleteMany(backend, keys)
          IN \A k \in OpKeys :
                IF k \in Listed(keys)
                THEN ~BackendExists(c, k, now).ret /\ Held(c, k) = PyNone
                ELSE /\ BackendExists(c, k, now).ret = BackendExists(backend, k, now).ret
                     /\ Held(c, k) = Held(backend, k)

Reads(b, k) ==
    [get |-> BackendGet(b, k, now).ret,
     exists |-> BackendExists(b, k, now).ret,
     get_many |-> [keys \in KeyLists |-> BaseGetMany(b, keys, now).ret],
     get_or_set |-> [f \in OpFactories |->
                       LET r == BaseGetOrSet(b, k, f, None, now) IN <<r.ret, r.calls>>],
     incr |-> [delta \in Deltas |->
                 LET r == BaseIncr(b, k, delta, now) IN <<r.ret, r.raised>>]]

\* the backends after the read-side operations on key k
AfterReads(b, k) ==
    [get |-> BackendGet(b, k, now).b,
     exists |-> BackendExists(b, k, now).b,
     get_many |-> [keys \in {l \in KeyLists : k \in Listed(l)} |->
                     BaseGetMany(b, keys, now).b],
     get_or_set |-> [f \in OpFactories |-> BaseGetOrSet(b, k, f, None, now).b],
     incr |-> [delta \in Deltas |-> BaseIncr(b, k, delta, now).b]]

\* the backend b had key k never been set
NeverSet(b, k) ==
    [b EXCEPT !.cache = MemDelete(b.cache, k), !.rows = SqlDelete(b.rows, k)]

\* the backend, and for a DiskCache also one on a database file that holds
\* the row of a set(k, 7, ttl) whose ttl ran out one second ago
WithExpiredRow(k) ==
    {backend} \cup
    (IF backend.kind = "disk"
     THEN {NewDisk(backend.max_size, <<Row(k, Serialize(PyInt(7)), Some(now - 1), now - 1)>>)}
     ELSE {})

\* C19 (expiry reads as absence): for a key whose ttl has elapsed, get
\* returns None, exists false, get_many leaves it out, get_or_set invokes its
\* factory and returns the result, incr returns its delta, and none raises;
\* every read-side operation gives what it gives on the same backend had the
\* key never been set, and leaves a MemoryCache in the same state.
C19_ExpiryIsAbsence ==
    \A k \in OpKeys : \A b \in WithExpiredRow(k) :
        HeldExpired(b, k, now) =>
            /\ Reads(b, k) = Reads(NeverSet(b, k), k)
            /\ Reads(b, k).get = PyNone
            /\ ~Reads(b, k).exists
            /\ \A keys \in KeyLists : k \notin DOMAIN Reads(b, k).get_many[keys]
            /\ \A f \in OpFactories : Reads(b, k).get_or_set[f] = <<f, 1>>
            /\ \A delta \in Deltas : Reads(b, k).incr[delta] = <<PyInt(delta), None>>
            /\ b.kind = "memory" => AfterReads(b, k) = AfterReads(NeverSet(b, k), k)

\* an incr by one on a key of a MemoryCache whose ttl had run out returned 1,
\* while the other key is still held with a ttl that has run out
C19_Witness ==
    /\ backend.kind = "memory"
    /\ did.op = "incr" /\ did.expired /\ did.ret = PyInt(1)
    /\ \E k \in OpKeys : HeldExpired(backend, k, now)

\* what the backend stores under key k: Some of the value and the expiry,
\* or None
EntryOf(b, k) ==
    CASE b.kind = "memory" ->
           IF MemHas(b.cache, k)
           THEN Some([value |-> MemLookup(b.cache, k).value,
                      expires_at |-> MemLookup(b.cache, k).expires_at])
           ELSE None
      [] b.kind = "disk" ->
           IF SqlSelect(b.rows, k) # None
           THEN Some([value |-> Deserialize(SqlSelect(b.rows, k)[1].value),
                      expires_at |-> SqlSelect(b.rows, k)[1].expires_at])
           ELSE None
      [] b.kind = "null" -> None

\* the backend, and for a DiskCache also one on a database file that holds
\* the row of a set(k, 0, ttl) whose ttl runs out in one second
WithLiveRow(k) ==
    {backend} \cup
    (IF backend.kind = "disk"
     THEN {NewDisk(backend.max_size, <<Row(k, Serialize(PyInt(0)), Some(now + 1), now)>>)}
     ELSE {})

\* the times from now until after every expiry a set can have given
Later == now..(MaxTime + 2)

\* incr and decr on the backends b drop the ttl of a key that holds an
\* integer with a ttl that has not run out
DropsTtl(backends(_)) ==
    \A k \in OpKeys : \A b \in backends(k) : \A delta \in Deltas :
        LET e == EntryOf(b, k)
            up == BaseIncr(b, k, delta, now)
            down == BaseDecr(b, k, delta, now)
        IN (/\ e # None /\ e[1].value[1] = "int"
            /\ e[1].expires_at # None /\ ~IsExpired(e[1].expires_at, now))
           => /\ up.raised = None /\ down.raised = None
              /\ EntryOf(up.b, k)
                 = Some([value |-> PyInt(e[1].value[2] + delta), expires_at |-> None])
              /\ EntryOf(down.b, k)
                 = Some([value |-> PyInt(e[1].value[2] - delta), expires_at |-> None])
              /\ \A t \in Later :
                    /\ BackendGet(up.b, k, t).ret = PyInt(e[1].value[2] + delta)
                    /\ BackendExists(down.b, k, t).ret

\* C34 as stated (incr and decr drop the ttl): after incr(k, d) or decr(k, d)
\* on a key that was set with a ttl and has not expired, the entry holds the
\* new integer with no expiry, so it stays present after the original expiry
\* time has passed.
C34_IncrDropsTtl == DropsTtl(WithLiveRow)

(* ------------------- claims on the manager's failures ----------------- *)

\* the outcomes of the manager methods called with the backend argument bk
MethodOutcomes(bk) ==
    {ManagerGetOf(mgr, heap, key, bk, now) : key \in MgrKeys}
    \cup {ManagerSetOf(mgr, heap, key, value, ttl, bk, now) :
             key \in MgrKeys, value \in ErrValues, ttl \in MgrTTLs}
    \cup {ManagerDeleteOf(mgr, heap, key, bk) : key \in MgrKeys}
    \cup {ManagerClearOf(mgr, heap, bk)}
    \cup {ManagerExistsOf(mgr, heap, key, bk, now) : key \in MgrKeys}
    \cup {ManagerGetOrSetOf(mgr, heap, key, f, ttl, bk, now) :
             key \in MgrKeys, f \in ErrValues, ttl \in MgrTTLs}

\* the call raised code and left the memo table, the counters and the
\* instances as they were
FailedWith(o, code) ==
    /\ o.raised = Some(code)
    /\ o.mgr.backends = mgr.backends
    /\ o.mgr.metrics = mgr.metrics
    /\ o.heap = heap

\* C15 (backend resolution errors): get_backend with an unknown type name
\* raises ValueError, and so does every manager method given that name as its
\* backend; every manager method given a backend that is neither a string nor
\* a backend raises TypeError; the memo table and all counters are unchanged.
C15_ResolutionErrors ==
    /\ \A kwargs \in KwargSets :
          FailedWith(GetBackend(mgr, heap, "bogus", kwargs), "ValueError")
    /\ \A o \in MethodOutcomes(TypeName("bogus")) : FailedWith(o, "ValueError")
    /\ \A o \in MethodOutcomes(NotABackend) : FailedWith(o, "TypeError")

\* a call with an unknown type name has just raised ValueError at a manager
\* that has memoized a backend and counted an operation
C15_Witness ==
    /\ mraised = Some("ValueError")
    /\ DOMAIN mgr.backends # {}
    /\ Calls(mgr) > 0

\* the instances whose set of value raises
RaisingSet(value) == {i \in 1..Len(heap) : SetRaises(heap[i], value) # None}

\* the instances whose get of key raises
RaisingGet(key) ==
    {i \in 1..Len(heap) : BackendGet(heap[i], key, now).ret[1] = "raise"}

\* get, set and get_or_set on an instance whose get or set raises pass the
\* exception on; recorded(m, counted) says what the counters of the manager
\* m left by the call show, counted being the counters that the method had
\* incremented when the exception left it
RaisingCalls(recorded(_, _)) ==
    \A key \in MgrKeys :
        /\ \A i \in RaisingGet(key) : \A f \in ErrValues : \A ttl \in MgrTTLs :
              LET code == Some(BackendGet(heap[i], key, now).ret[2])
                  g == ManagerGetOf(mgr, heap, key, Instance(i), now)
                  gs == ManagerGetOrSetOf(mgr, heap, key, f, ttl, Instance(i), now)
              IN /\ g.raised = code /\ recorded(g.mgr, {})
                 /\ gs.raised = code /\ recorded(gs.mgr, {})
        /\ \A value \in ErrValues : \A ttl \in MgrTTLs : \A i \in RaisingSet(value) :
              LET name == GetBackendName(heap[i])
                  s == ManagerSetOf(mgr, heap, key, value, ttl, Instance(i), now)
                  gs == ManagerGetOrSetOf(mgr, heap, key, value, ttl, Instance(i), now)
              IN /\ s.raised = SetRaises(heap[i], value) /\ recorded(s.mgr, {})
                 /\ BackendGet(heap[i], key, now).ret = PyNone =>
                      /\ gs.raised = SetRaises(heap[i], value)
                      /\ recorded(gs.mgr, {<<"misses", name>>})

\* C17 as stated (metrics for failing operations): when a backend operation
\* invoked through the manager raises, the manager passes the exception on
\* unchanged and still records the operation: a counter is incremented.
C17_FailuresCounted ==
    RaisingCalls(LAMBDA m, counted : Calls(m) > Calls(mgr))

\* C17 (metrics for failing operations): when a backend operation invoked
\* through the manager raises, the manager passes the exception on unchanged
\* and records nothing for the call that raised: a raising get or set leaves
\* every counter as it was, a get_or_set whose set raises has counted its
\* miss and nothing else.
C17_FailuresNotCounted ==
    RaisingCalls(LAMBDA m, counted : OnlyCounted(mgr, m, counted))

\* a get on the DiskCache has just raised the CacheError of a value that
\* does not decode, at a manager that has counted an operation
C17_Witness ==
    /\ mraised = Some("CacheError")
    /\ Calls(mgr) > 0

(* -------------------------- claims on the race ------------------------ *)

\* the instance the two callers work on, once one has resolved it
RaceCache == heap[CHOOSE i \in 1..Len(heap) : \E c \in Callers : frame[c].cache = i]

\* both callers have returned
BothDone == \A c \in Callers : pc[c] = "done"

\* C20 (get_or_set is not atomic): in every interleaving of two callers of
\* get_or_set on the same absent key of the same backend, a caller whose get
\* missed invokes its factory and writes the result, and a backend that
\* keeps what is set holds the value of the last writer; when both missed,
\* both have computed and written, the value left is the second writer's,
\* no hit is counted and misses and sets are 2 each, or 1 where the two
\* increments of a counter overlapped; when one hit, it returned the other's
\* value and misses, sets and hits are 1 each.
C20_SecondWriteWins ==
    LET name == GetBackendName(RaceCache)
        keeps == RaceCache.kind = "memory" /\ RaceCache.max_size >= 1
    IN /\ \A c \in Callers :
            (pc[c] = "done" /\ frame[c].missed) =>
                /\ frame[c].value = Factory(c)
                /\ \E i \in 1..Len(writers) : writers[i] = c
       /\ (writers # <<>> /\ keeps) => Held(RaceCache, KeyK) = Factory(writers[Len(writers)])
       /\ (BothDone /\ \A c \in Callers : frame[c].missed) =>
            /\ Len(writers) = 2
            /\ Count(mgr, "misses", name) \in {1, 2}
            /\ Count(mgr, "sets", name) \in {1, 2}
            /\ Count(mgr, "hits", name) = 0
       /\ (BothDone /\ \E c \in Callers : ~frame[c].missed) =>
            /\ keeps /\ Len(writers) = 1
            /\ \A c \in Callers : frame[c].value = Factory(writers[1])
            /\ OnlyCounted(NewManager(0), mgr,
                           {<<"misses", name>>, <<"sets", name>>, <<"hits", name>>})

\* the interleaving of the claim: both callers missed on the default
\* MemoryCache, both computed and wrote, caller 1 last; the cache holds the
\* value of caller 1 and the manager has counted two misses and two sets
C20_Witness ==
    /\ BothDone
    /\ \A c \in Callers : frame[c].backend = NoBackend /\ frame[c].missed
    /\ writers = <<2, 1>>
    /\ Held(RaceCache, KeyK) = Factory(1)
    /\ Count(mgr, "misses", "memory") = 2
    /\ Count(mgr, "sets", "memory") = 2

(* --------------------- claims on the default backend ------------------ *)

\* the memo key of get_backend("memory")
MemoryKey == CacheKey("memory", None)

\* the instances that default_backend and get_backend("memory") have
\* handed out so far
HandedOut ==
    {s[3] : s \in {x \in served : x[1] \in {"default", "memory"} /\ x[2] = None}}

\* C21 (default backend): a manager method called without a backend, one
\* called with backend="memory" and get_backend("memory") resolve to one
\* and the same instance, a MemoryCache of the default max_size; it does
\* not exist before its first use, the first use makes it, and every later
\* use, as every use so far, gets that instance and makes none; so a value
\* set without a backend is read with backend="memory" and the other way
\* round.
C21_DefaultBackend ==
    LET d == GetBackendInstance(mgr, heap, NoBackend)
        n == GetBackendInstance(mgr, heap, TypeName("memory"))
        g == GetBackend(mgr, heap, "memory", None)
        made == DictHas(mgr.backends, MemoryKey)
        names == {NoBackend, TypeName("memory")}
    IN /\ d.raised = None /\ n.raised = None /\ g.raised = None
       /\ d.ret = n.ret /\ n.ret = g.ret
       /\ d.heap = n.heap /\ n.heap = g.heap
       /\ d.heap[d.ret] = IF made THEN heap[d.ret] ELSE NewMemory(DefaultMaxSize)
       /\ HandedOut \subseteq {d.ret}
       /\ made => d.heap = heap /\ (mgr.default # None => mgr.default = Some(d.ret))
       /\ ~made =>
            /\ mgr.default = None /\ HandedOut = {}
            /\ \A i \in 1..Len(heap) : heap[i].max_size # DefaultMaxSize
            /\ d.heap = Append(heap, NewMemory(DefaultMaxSize)) /\ d.ret = Len(heap) + 1
       /\ \A key \in MgrKeys : \A value \in MgrValues : \A w \in names : \A r \in names :
            LET s == ManagerSetOf(mgr, heap, key, value, None, w, now)
            IN /\ ManagerGetOf(s.mgr, s.heap, key, r, now).ret = value
               /\ ManagerExistsOf(s.mgr, s.heap, key, r, now).ret = PyTrue

\* methods without a backend and get_backend("memory") have been called
\* after another MemoryCache was made, and the default MemoryCache holds a
\* value
C21_Witness ==
    /\ watch = "default"
    /\ mgr.default # None
    /\ <<"memory", None, mgr.default[1]>> \in served
    /\ <<"default", None, mgr.default[1]>> \in served
    /\ mgr.default[1] > 1
    /\ heap[mgr.default[1]].cache # <<>>

(* ------------------------ claims on the snapshot ---------------------- *)

\* what the mappings of a snapshot hold
SnapshotContent(m, snapshot) == [key \in DOMAIN snapshot |-> DictOf(m, snapshot[key])]

\* C22 (get_metrics returns a snapshot): the counter mappings of a returned
\* snapshot hold what they held when get_metrics returned, or what the
\* caller has written into them since, whatever manager operations ran
\* after the call; and a write into a mapping of the snapshot leaves the
\* manager's counters as they are, so that a later get_metrics returns the
\* manager's counters and not what was written.
C22_SnapshotIsACopy ==
    snap # None =>
        /\ SnapshotContent(mgr, snap[1]) = snapWas[1]
        /\ \A w \in SnapWrites :
             LET o == SnapshotStore(mgr, snap[1], w[1], w[2], w[3])
             IN /\ o.mgr.metrics = mgr.metrics
                /\ SnapshotContent(o.mgr, MetricsCopy(o.mgr)) = mgr.metrics
                /\ GetMetrics(o.mgr, now) = GetMetrics(mgr, now)

\* a snapshot was returned, the manager has counted a hit and a set since,
\* and the caller has written hits of 9 into the snapshot
C22_Witness ==
    /\ snap # None
    /\ DictGet(snapWas[1].hits, "memory", 0) = 9
    /\ DictGet(mgr.metrics.hits, "memory", 0) = 1
    /\ DictGet(snapWas[1].sets, "memory", 0) = 0
    /\ DictGet(mgr.metrics.sets, "memory", 0) = 1

(* ----------------------- claims on the accounting --------------------- *)

\* the calls of one kind (field) tallied for the first n instances, those
\* of the backends named name
RECURSIVE TalliedFor(_, _, _)
TalliedFor(n, name, field) ==
    IF n = 0 THEN 0
    ELSE TalliedFor(n - 1, name, field)
         + (IF heap[n].kind = name THEN tally[n][field] ELSE 0)

\* the calls of one kind resolved to a backend named name
TalliedAs(name, field) == TalliedFor(Len(tally), name, field)

\* no counter decreases in a step
CountersGrow ==
    \A metric_type \in MetricTypes : \A name \in BackendNames :
        Count(mgr', metric_type, name) >= Count(mgr, metric_type, name)

\* for every name the counters show the calls tallied; lookups(name) is the
\* number of calls that hits[name] + misses[name] stands for
Accounted(lookups(_)) ==
    watch = "account" =>
        \A name \in BackendNames :
            /\ Count(mgr, "hits", name) + Count(mgr, "misses", name) = lookups(name)
            /\ Count(mgr, "sets", name)
               = TalliedAs(name, "sets") + TalliedAs(name, "stores")
            /\ Count(mgr, "deletes", name) = TalliedAs(name, "deletes")

\* C31 as stated (manager counter accounting): after any sequence of manager
\* operations, for every backend name hits[name] + misses[name] is the
\* number of completed get and get_or_set calls resolved to a backend of
\* that name, sets[name] the number of completed set calls plus get_or_set
\* misses, deletes[name] the number of completed delete calls; no counter
\* ever decreases.
C31_CounterAccounting ==
    /\ [](Accounted(LAMBDA name : TalliedAs(name, "reads")))
    /\ [][CountersGrow]_vars

\* C31 (manager counter accounting): as stated, but hits[name] + misses[name]
\* also counts the get_or_set calls resolved to a backend of that name that
\* missed and then raised, whose miss was counted before the exception; the
\* get_or_set misses in sets[name] are those of the completed calls.
C31_CounterAccountingWithRaises ==
    /\ [](Accounted(LAMBDA name : TalliedAs(name, "reads") + TalliedAs(name, "broken")))
    /\ [][CountersGrow]_vars

\* a get_or_set on a MemoryCache has missed and completed, another has
\* missed and raised, and a set on the DiskCache has completed
C31_Witness ==
    /\ watch = "account"
    /\ TalliedAs("memory", "stores") >= 1
    /\ TalliedAs("memory", "broken") >= 1
    /\ TalliedAs("disk", "sets") >= 1

\* the backend instance holds no entry and its file no row
HoldsNothing(b) == b.cache = <<>> /\ b.rows = <<>>

\* C32 as stated: CacheManager.exists and CacheManager.clear leave the four
\* counters as they are, and clear empties the backend it resolved.
C32_ClearAndExistsUncounted ==
    watch = "account" =>
        \A bk \in AcctArgs : \A key \in MgrKeys :
            LET r == GetBackendInstance(mgr, heap, bk)
                cleared == ManagerClearOf(mgr, heap, bk)
                tested == ManagerExistsOf(mgr, heap, key, bk, now)
            IN /\ cleared.mgr.metrics = mgr.metrics
               /\ tested.mgr.metrics = mgr.metrics
               /\ cleared.raised = None => HoldsNothing(cleared.heap[r.ret])

\* the names of the instances made so far
NamesInUse == {heap[i].kind : i \in 1..Len(heap)}

\* C33 (metrics are keyed by backend name): the keys of the four counter
\* dicts are names of backends, and operations on two different instances of
\* one name add to the same counters: a set through one and then a set
\* through the other raise sets[name] by two, likewise two deletes
\* deletes[name] and two gets hits[name] + misses[name].
C33_MetricsKeyedByName ==
    watch = "account" =>
        /\ \A metric_type \in MetricTypes : DOMAIN mgr.metrics[metric_type] \subseteq NamesInUse
        /\ \A i \in 1..Len(heap) : \A j \in 1..Len(heap) : \A key \in MgrKeys :
             (i # j /\ heap[i].kind = heap[j].kind) =>
                LET name == heap[i].kind
                    s1 == ManagerSetOf(mgr, heap, key, PyInt(7), None, Instance(i), now)
                    s2 == ManagerSetOf(s1.mgr, s1.heap, key, PyInt(7), None, Instance(j), now)
                    d1 == ManagerDeleteOf(mgr, heap, key, Instance(i))
                    d2 == ManagerDeleteOf(d1.mgr, d1.heap, key, Instance(j))
                    g1 == ManagerGetOf(mgr, heap, key, Instance(i), now)
                    g2 == ManagerGetOf(g1.mgr, g1.heap, key, Instance(j), now)
                IN /\ (s1.raised = None /\ s2.raised = None)
                      => Count(s2.mgr, "sets", name) = Count(mgr, "sets", name) + 2
                   /\ Count(d2.mgr, "deletes", name) = Count(mgr, "deletes", name) + 2
                   /\ (g1.raised = None /\ g2.raised = None)
                      => Count(g2.mgr, "hits", name) + Count(g2.mgr, "misses", name)
                         = Count(mgr, "hits", name) + Count(mgr, "misses", name) + 2

\* sets through two MemoryCache instances have completed, and sets["memory"]
\* is the number of both together
C33_Witness ==
    /\ watch = "account"
    /\ \E i \in 1..Len(heap) : \E j \in 1..Len(heap) :
         /\ i # j
         /\ heap[i].kind = "memory" /\ heap[j].kind = "memory"
         /\ tally[i].sets >= 1 /\ tally[j].sets >= 1
         /\ Count(mgr, "sets", "memory") = tally[i].sets + tally[j].sets

=============================================================================
